---- MODULE Spec2Model ----
\* diffchunk: the diff parser (parser.py), the change filter (filters.py)
\* and the chunker (chunker.py), as one state machine.  A str is the
\* sequence of its characters, so every test the code makes on a line
\* (startswith, the regular expressions, rstrip) is computed on the line.
\* List indices are 0-based as in the source: lines[i] is lines[i + 1] here.
EXTENDS Integers, Sequences, FiniteSets, TLC

\* ---------------------------------------------------------------------
\* the string literals of the source

\* 'diff --git'
DIFF_GIT ==
    <<"d", "i", "f", "f", " ", "-", "-", "g", "i", "t">>

\* 'diff --git a/'
DIFF_GIT_A ==
    <<"d", "i", "f", "f", " ", "-", "-", "g", "i", "t", " ", "a", "/">>

\* ' b/'
SP_B ==
    <<" ", "b", "/">>

\* '--- '
OLD_FILE ==
    <<"-", "-", "-", " ">>

\* '+++ '
NEW_FILE ==
    <<"+", "+", "+", " ">>

\* '---'
MINUSES ==
    <<"-", "-", "-">>

\* '+++'
PLUSES ==
    <<"+", "+", "+">>

\* '@@ -'
HUNK_OPEN ==
    <<"@", "@", " ", "-">>

\* ' +'
HUNK_NEW ==
    <<" ", "+">>

\* ' @@'
HUNK_CLOSE ==
    <<" ", "@", "@">>

\* 'Binary file'
BINARY_FILE ==
    <<"B", "i", "n", "a", "r", "y", " ", "f", "i", "l", "e">>

\* 'Binary files'
BINARY_FILES ==
    <<"B", "i", "n", "a", "r", "y", " ", "f", "i", "l", "e", "s">>

\* ' differ'
DIFFER ==
    <<" ", "d", "i", "f", "f", "e", "r">>

\* 'new file mode'
NEW_FILE_MODE ==
    <<"n", "e", "w", " ", "f", "i", "l", "e", " ", "m", "o", "d", "e">>

\* 'deleted file mode'
DELETED_FILE_MODE ==
    <<"d", "e", "l", "e", "t", "e", "d", " ", "f", "i", "l", "e", " ", "m",
      "o", "d", "e">>

\* 'index '
INDEX ==
    <<"i", "n", "d", "e", "x", " ">>

\* 'Changes to '
CHANGES_TO ==
    <<"C", "h", "a", "n", "g", "e", "s", " ", "t", "o", " ">>

\* ', '
COMMA ==
    <<",", " ">>

\* ' and '
AND ==
    <<" ", "a", "n", "d", " ">>

\* ' other files'
OTHER_FILES ==
    <<" ", "o", "t", "h", "e", "r", " ", "f", "i", "l", "e", "s">>

\* ---------------------------------------------------------------------
\* str and re

Digits == {"0", "1", "2", "3", "4", "5", "6", "7", "8", "9"}

DigitValue(d) == CHOOSE n \in 0..9 : ToString(n) = d

Max(S) == CHOOSE m \in S : \A n \in S : n <= m

\* min(a, b)
Min2(a, b) == IF a <= b THEN a ELSE b

\* s[a - 1:b], cut at the end of s as a Python slice is
Slice(s, a, b) == SubSeq(s, a, Min2(b, Len(s)))

\* s.startswith(prefix)
startswith(s, prefix) ==
    Len(prefix) <= Len(s) /\ SubSeq(s, 1, Len(prefix)) = prefix

endswith(s, suffix) ==
    /\ Len(suffix) <= Len(s)
    /\ SubSeq(s, Len(s) - Len(suffix) + 1, Len(s)) = suffix

\* line.rstrip('\n\r')
RECURSIVE rstrip(_)
rstrip(s) ==
    IF s # <<>> /\ s[Len(s)] \in {"\n", "\r"}
    THEN rstrip(SubSeq(s, 1, Len(s) - 1))
    ELSE s

\* int() of a run of digits
RECURSIVE int(_)
int(s) ==
    IF s = <<>> THEN 0
    ELSE 10 * int(SubSeq(s, 1, Len(s) - 1)) + DigitValue(s[Len(s)])

\* str() of a number that is not negative
RECURSIVE str(_)
str(n) ==
    IF n < 10 THEN <<ToString(n)>>
    ELSE Append(str(n \div 10), ToString(n % 10))

\* the end of the longest run of digits of s from position p: the first
\* position from p on that holds no digit (\d+ is greedy)
RECURSIVE DigitsEnd(_, _)
DigitsEnd(s, p) ==
    IF p <= Len(s) /\ s[p] \in Digits THEN DigitsEnd(s, p + 1) ELSE p

NoMatch == [matched |-> FALSE, groups |-> <<>>]

Match(groups) == [matched |-> TRUE, groups |-> groups]

HeaderGroups(line, at, splits) ==
    IF splits = {} THEN NoMatch
    ELSE Match(<<SubSeq(line, at, Max(splits) - 1),
                 SubSeq(line, Max(splits) + Len(SP_B), Len(line))>>)

\* re.compile(r'^diff --git a/(.*) b/(.*)$'): the first group is greedy, so
\* it ends at the last ' b/' of the line
FILE_HEADER_PATTERN(line) ==
    IF startswith(line, DIFF_GIT_A)
    THEN HeaderGroups(line, Len(DIFF_GIT_A) + 1,
             {k \in (Len(DIFF_GIT_A) + 1)..(Len(line) - Len(SP_B) + 1) :
                 SubSeq(line, k, k + Len(SP_B) - 1) = SP_B})
    ELSE NoMatch

\* re.compile(r'^--- (.*)$')
OLD_FILE_PATTERN(line) == startswith(line, OLD_FILE)

\* re.compile(r'^\+\+\+ (.*)$')
NEW_FILE_PATTERN(line) == startswith(line, NEW_FILE)

\* (\d+)(?:,(\d+))? at position p of s, the number ending before e1 and the
\* digits after a comma before e2: the number, the count (empty when the
\* group is absent) and the position after them
RangeGroups(s, p, e1, e2) ==
    IF e1 <= Len(s) /\ s[e1] = "," /\ e2 > e1 + 1
    THEN [ok |-> e1 > p, start |-> SubSeq(s, p, e1 - 1),
          count |-> SubSeq(s, e1 + 1, e2 - 1), next |-> e2]
    ELSE [ok |-> e1 > p, start |-> SubSeq(s, p, e1 - 1),
          count |-> <<>>, next |-> e1]

RangeCount(s, p, e1) == RangeGroups(s, p, e1, DigitsEnd(s, e1 + 1))

RangeAt(s, p) == RangeCount(s, p, DigitsEnd(s, p))

HunkHeaderNew(line, old, new) ==
    IF new.ok /\ Slice(line, new.next, new.next + Len(HUNK_CLOSE) - 1) = HUNK_CLOSE
    THEN Match(<<old.start, old.count, new.start, new.count>>)
    ELSE NoMatch

HunkHeaderOld(line, old) ==
    IF old.ok /\ Slice(line, old.next, old.next + Len(HUNK_NEW) - 1) = HUNK_NEW
    THEN HunkHeaderNew(line, old, RangeAt(line, old.next + Len(HUNK_NEW)))
    ELSE NoMatch

\* re.compile(r'^@@ -(\d+)(?:,(\d+))? \+(\d+)(?:,(\d+))? @@.*$')
HUNK_HEADER_PATTERN(line) ==
    IF startswith(line, HUNK_OPEN)
    THEN HunkHeaderOld(line, RangeAt(line, Len(HUNK_OPEN) + 1))
    ELSE NoMatch

BinaryAfter(line, n) ==
    /\ n + 1 <= Len(line) /\ line[n + 1] = " "
    /\ endswith(line, DIFFER)
    /\ Len(line) >= n + 1 + Len(DIFFER)

\* re.compile(r'^Binary files? .* differ$')
BINARY_PATTERN(line) ==
    \/ startswith(line, BINARY_FILES) /\ BinaryAfter(line, Len(BINARY_FILES))
    \/ startswith(line, BINARY_FILE) /\ BinaryAfter(line, Len(BINARY_FILE))

\* ^<prefix> \d+$
ModePattern(line, prefix) ==
    /\ startswith(line, prefix)
    /\ Len(line) > Len(prefix) + 1
    /\ line[Len(prefix) + 1] = " "
    /\ DigitsEnd(line, Len(prefix) + 2) = Len(line) + 1

\* re.compile(r'^new file mode \d+$')
NEW_FILE_MODE_PATTERN(line) == ModePattern(line, NEW_FILE_MODE)

\* re.compile(r'^deleted file mode \d+$')
DELETED_FILE_MODE_PATTERN(line) == ModePattern(line, DELETED_FILE_MODE)


\* ---------------------------------------------------------------------
\* parser.py

FileChange(old_path, new_path, old_start, old_count, new_start, new_count, lines, is_binary, is_new_file, is_deleted_file) ==
    [old_path |-> old_path, new_path |-> new_path,
     old_start |-> old_start, old_count |-> old_count,
     new_start |-> new_start, new_count |-> new_count,
     lines |-> lines, is_binary |-> is_binary,
     is_new_file |-> is_new_file, is_deleted_file |-> is_deleted_file]

\* a FileChange with the fields of change and other lines
WithLines(change, lines) ==
    FileChange(change.old_path, change.new_path, change.old_start,
        change.old_count, change.new_start, change.new_count, lines,
        change.is_binary, change.is_new_file, change.is_deleted_file)

DiffStats(total_lines, files_changed, additions, deletions, binary_files, trivial_changes) ==
    [total_lines |-> total_lines, files_changed |-> files_changed,
     additions |-> additions, deletions |-> deletions,
     binary_files |-> binary_files, trivial_changes |-> trivial_changes]

\* the test of _parse_hunks for a line of hunk content
IsHunkContent(line) ==
    \/ startswith(line, <<" ">>) \/ startswith(line, <<"+">>)
    \/ startswith(line, <<"-">>) \/ startswith(line, <<"\\">>)

\* the inner loop of _parse_hunks: the content lines of one hunk
RECURSIVE HunkContent(_, _, _)
HunkContent(lines, i, hunk_lines) ==
    IF i < Len(lines) /\ IsHunkContent(rstrip(lines[i + 1]))
    THEN HunkContent(lines, i + 1, Append(hunk_lines, rstrip(lines[i + 1])))
    ELSE [i |-> i, hunk_lines |-> hunk_lines]

\* the outer loop of _parse_hunks; at holds i and hunk_lines
RECURSIVE HunksLoop(_, _)
HunksLoop(lines, at) ==
    IF at.i < Len(lines)
    THEN IF HUNK_HEADER_PATTERN(rstrip(lines[at.i + 1])).matched
         THEN HunksLoop(lines,
                  HunkContent(lines, at.i + 1,
                      Append(at.hunk_lines, rstrip(lines[at.i + 1]))))
         ELSE IF startswith(rstrip(lines[at.i + 1]), DIFF_GIT)
         THEN at
         ELSE HunksLoop(lines, [at EXCEPT !.i = @ + 1])
    ELSE at

_parse_hunks(lines, start_idx) ==
    HunksLoop(lines, [i |-> start_idx, hunk_lines |-> <<>>])

\* the hunk branch of the metadata loop
WithHunks(m, hunks) ==
    [m EXCEPT !.i = hunks.i, !.file_lines = @ \o hunks.hunk_lines]

\* the metadata loop of _parse_file_change at line, already appended to
\* file_lines; m holds i, file_lines and the flags
RECURSIVE MetadataLoop(_, _)
\* the metadata loop with a binary marker that does not end it
MetadataLineBinaryOpen(lines, m, line) ==
    IF BINARY_PATTERN(line)
    THEN MetadataLoop(lines, [m EXCEPT !.i = @ + 1, !.is_binary = TRUE])
    ELSE IF NEW_FILE_MODE_PATTERN(line)
    THEN MetadataLoop(lines, [m EXCEPT !.i = @ + 1, !.is_new_file = TRUE])
    ELSE IF DELETED_FILE_MODE_PATTERN(line)
    THEN MetadataLoop(lines, [m EXCEPT !.i = @ + 1, !.is_deleted_file = TRUE])
    ELSE IF OLD_FILE_PATTERN(line) \/ NEW_FILE_PATTERN(line)
    THEN MetadataLoop(lines, [m EXCEPT !.i = @ + 1])
    ELSE IF HUNK_HEADER_PATTERN(line).matched
    THEN WithHunks(m, _parse_hunks(lines, m.i))
    ELSE IF startswith(line, DIFF_GIT)
    THEN [m EXCEPT !.i = @ - 1]
    ELSE MetadataLoop(lines, [m EXCEPT !.i = @ + 1])

MetadataLine(lines, m, line) ==
    IF BINARY_PATTERN(line)
    THEN [m EXCEPT !.i = @ + 1, !.is_binary = TRUE]
    ELSE IF NEW_FILE_MODE_PATTERN(line)
    THEN MetadataLoop(lines, [m EXCEPT !.i = @ + 1, !.is_new_file = TRUE])
    ELSE IF DELETED_FILE_MODE_PATTERN(line)
    THEN MetadataLoop(lines, [m EXCEPT !.i = @ + 1, !.is_deleted_file = TRUE])
    ELSE IF OLD_FILE_PATTERN(line) \/ NEW_FILE_PATTERN(line)
    THEN MetadataLoop(lines, [m EXCEPT !.i = @ + 1])
    ELSE IF HUNK_HEADER_PATTERN(line).matched
    THEN WithHunks(m, _parse_hunks(lines, m.i))
    ELSE IF startswith(line, DIFF_GIT)
    THEN [m EXCEPT !.i = @ - 1]
    ELSE MetadataLoop(lines, [m EXCEPT !.i = @ + 1])

\* the metadata loop of _parse_file_change
MetadataLoop(lines, m) ==
    IF m.i < Len(lines)
    THEN MetadataLine(lines,
             [m EXCEPT !.file_lines = Append(@, rstrip(lines[m.i + 1]))],
             rstrip(lines[m.i + 1]))
    ELSE m

\* the numbers of a hunk header, a count that is absent taken as 0
HunkNumbersNoDefault(groups) ==
    [old_start |-> int(groups[1]),
     old_count |-> int(groups[2]),
     new_start |-> int(groups[3]),
     new_count |-> int(groups[4])]

HunkNumbers(groups) ==
    [old_start |-> int(groups[1]),
     old_count |-> IF groups[2] # <<>> THEN int(groups[2]) ELSE 1,
     new_start |-> int(groups[3]),
     new_count |-> IF groups[4] # <<>> THEN int(groups[4]) ELSE 1]

\* the numbers of the first line of file_lines that is a hunk header
RECURSIVE FirstHunk(_)
FirstHunk(file_lines) ==
    IF file_lines = <<>>
    THEN [old_start |-> 0, old_count |-> 0, new_start |-> 0, new_count |-> 0]
    ELSE IF HUNK_HEADER_PATTERN(Head(file_lines)).matched
    THEN HunkNumbers(HUNK_HEADER_PATTERN(Head(file_lines)).groups)
    ELSE FirstHunk(Tail(file_lines))

ParsedFile(m, hunk, old_path, new_path) ==
    [i |-> m.i,
     file_change |->
         FileChange(old_path, new_path, hunk.old_start, hunk.old_count,
             hunk.new_start, hunk.new_count, m.file_lines, m.is_binary,
             m.is_new_file, m.is_deleted_file)]

ParsedMetadata(m, old_path, new_path) ==
    ParsedFile(m, FirstHunk(m.file_lines), old_path, new_path)

\* _parse_file_change: the index it returns and its FileChange
_parse_file_change(lines, start_idx, old_path, new_path) ==
    ParsedMetadata(
        MetadataLoop(lines,
            [i |-> start_idx + 1,
             file_lines |-> <<rstrip(lines[start_idx + 1])>>,
             is_binary |-> FALSE, is_new_file |-> FALSE,
             is_deleted_file |-> FALSE]),
        old_path, new_path)

\* line.startswith('+') and not line.startswith('+++')
IsAddition(line) == startswith(line, <<"+">>) /\ ~startswith(line, PLUSES)

\* line.startswith('-') and not line.startswith('---')
IsDeletion(line) == startswith(line, <<"-">>) /\ ~startswith(line, MINUSES)

RECURSIVE AllLines(_)
AllLines(changes) ==
    IF changes = <<>> THEN <<>>
    ELSE Head(changes).lines \o AllLines(Tail(changes))

CountIn(stats, all) ==
    [stats EXCEPT
        !.additions = Cardinality({k \in 1..Len(all) : IsAddition(all[k])}),
        !.deletions = Cardinality({k \in 1..Len(all) :
                          ~IsAddition(all[k]) /\ IsDeletion(all[k])})]

\* the closing loop of parse_stream: the additions and deletions of stats
CountStats(stats, changes) == CountIn(stats, AllLines(changes))


\* ---------------------------------------------------------------------
\* filters.py

\* \s of the re module
Whitespace == {" ", "\t", "\n", "\r", "\f"}

AllWhitespace(s) == \A k \in 1..Len(s) : s[k] \in Whitespace

\* re.compile(r'^[+-]\s*$')
WHITESPACE_ONLY_PATTERN(line) ==
    line # <<>> /\ line[1] \in {"+", "-"} /\ AllWhitespace(Tail(line))

\* re.compile(r'^[+-]$'); $ also matches before a closing newline
NEWLINE_ONLY_PATTERN(line) ==
    line # <<>> /\ line[1] \in {"+", "-"} /\ Tail(line) \in {<<>>, <<"\n">>}

\* re.compile(r'^([+-])(.*)(\s+)$'): (.*) is greedy and leaves (\s+) the
\* last character of the line; '.' matches no newline
TRAILING_WHITESPACE_PATTERN(line) ==
    IF /\ Len(line) >= 2 /\ line[1] \in {"+", "-"}
       /\ line[Len(line)] \in Whitespace
       /\ \A k \in 2..(Len(line) - 1) : line[k] # "\n"
    THEN Match(<<<<line[1]>>, SubSeq(line, 2, Len(line) - 1),
                 <<line[Len(line)]>>>>)
    ELSE NoMatch

\* the generated-file patterns, each with what pattern.match(path) tests:
\* r'.*X$' is a suffix of the path, r'X$' the whole path, r'X/.*' a prefix
GENERATED_FILE_PATTERNS ==
    << [kind |-> "suffix", alts |-> {<<".", "m", "i", "n", ".", "j", "s">>, <<".", "m", "i", "n", ".", "c", "s", "s">>}],
       [kind |-> "suffix", alts |-> {<<".", "b", "u", "n", "d", "l", "e", ".", "j", "s">>, <<".", "b", "u", "n", "d", "l", "e", ".", "c", "s", "s">>}],
       [kind |-> "suffix", alts |-> {<<".", "g", "e", "n", "e", "r", "a", "t", "e", "d", ".", "j", "s">>, <<".", "g", "e", "n", "e", "r", "a", "t", "e", "d", ".", "t", "s">>,
                                     <<".", "g", "e", "n", "e", "r", "a", "t", "e", "d", ".", "p", "y">>, <<".", "g", "e", "n", "e", "r", "a", "t", "e", "d", ".", "c", "s">>}],
       [kind |-> "suffix", alts |-> {<<".", "g", ".", "c", "s">>, <<".", "g", ".", "v", "b">>}],
       [kind |-> "suffix", alts |-> {<<".", "d", "e", "s", "i", "g", "n", "e", "r", ".", "c", "s">>, <<".", "d", "e", "s", "i", "g", "n", "e", "r", ".", "v", "b">>}],
       [kind |-> "whole", alts |-> {<<"p", "a", "c", "k", "a", "g", "e", "-", "l", "o", "c", "k", ".", "j", "s", "o", "n">>}],
       [kind |-> "whole", alts |-> {<<"y", "a", "r", "n", ".", "l", "o", "c", "k">>}],
       [kind |-> "whole", alts |-> {<<"P", "i", "p", "f", "i", "l", "e", ".", "l", "o", "c", "k">>}],
       [kind |-> "whole", alts |-> {<<"p", "o", "e", "t", "r", "y", ".", "l", "o", "c", "k">>}],
       [kind |-> "suffix", alts |-> {<<".", "p", "y", "c">>}],
       [kind |-> "suffix", alts |-> {<<".", "p", "y", "o">>}],
       [kind |-> "suffix", alts |-> {<<".", "p", "y", "d">>}],
       [kind |-> "prefix", alts |-> {<<"_", "_", "p", "y", "c", "a", "c", "h", "e", "_", "_", "/">>}],
       [kind |-> "prefix", alts |-> {<<".", "v", "s", "/">>}],
       [kind |-> "prefix", alts |-> {<<".", "v", "s", "c", "o", "d", "e", "/">>}],
       [kind |-> "prefix", alts |-> {<<"n", "o", "d", "e", "_", "m", "o", "d", "u", "l", "e", "s", "/">>}],
       [kind |-> "prefix", alts |-> {<<"b", "i", "n", "/">>}],
       [kind |-> "prefix", alts |-> {<<"o", "b", "j", "/">>}],
       [kind |-> "prefix", alts |-> {<<"d", "i", "s", "t", "/">>}],
       [kind |-> "prefix", alts |-> {<<"b", "u", "i", "l", "d", "/">>}] >>

\* pattern.match(path)
PatternMatch(pattern, path) ==
    \E alt \in pattern.alts :
        CASE pattern.kind = "suffix" -> endswith(path, alt)
          [] pattern.kind = "whole" -> path = alt
          [] pattern.kind = "prefix" -> startswith(path, alt)

_should_skip_file(self, change) ==
    IF ~self.skip_generated THEN FALSE
    ELSE \E k \in 1..Len(self.generated_patterns) :
            \/ PatternMatch(self.generated_patterns[k], change.new_path)
            \/ PatternMatch(self.generated_patterns[k], change.old_path)

TrailingWhitespaceOnly(match) ==
    IF ~match.matched THEN FALSE ELSE AllWhitespace(match.groups[2])

_is_trailing_whitespace_change(line) ==
    TrailingWhitespaceOnly(TRAILING_WHITESPACE_PATTERN(line))

\* _is_trivial_line taking hunk headers for trivial lines as well
TrivialOrHunkHeader(line) ==
    startswith(line, <<"@">>) \/ WHITESPACE_ONLY_PATTERN(line)

_is_trivial_line(line) ==
    IF ~(startswith(line, <<"+">>) \/ startswith(line, <<"-">>)) THEN FALSE
    ELSE IF startswith(line, PLUSES) \/ startswith(line, MINUSES) THEN FALSE
    ELSE IF WHITESPACE_ONLY_PATTERN(line) THEN TRUE
    ELSE IF NEWLINE_ONLY_PATTERN(line) THEN TRUE
    ELSE IF _is_trailing_whitespace_change(line) THEN TRUE
    ELSE FALSE

IsNotTrivial(line) == ~_is_trivial_line(line)

\* _filter_trivial_lines dropping the leading line as well
DropLeadingLine(lines) ==
    IF lines = <<>> THEN lines ELSE SelectSeq(Tail(lines), IsNotTrivial)

_filter_trivial_lines(lines) == SelectSeq(lines, IsNotTrivial)

_has_significant_changes(lines) ==
    Cardinality({k \in 1..Len(lines) :
                    IsAddition(lines[k]) \/ IsDeletion(lines[k])}) > 0

\* the body of the loop of filter_changes once the file is not skipped and
\* skip_trivial is set; r holds filtered_changes and trivial_count
FilterTrivial(r, change, filtered_lines) ==
    IF ~_has_significant_changes(filtered_lines)
    THEN [r EXCEPT !.trivial_count = @ + 1]
    ELSE [r EXCEPT !.filtered_changes =
                       Append(@, WithLines(change, filtered_lines))]

\* the body of the loop of filter_changes counting a skipped file twice
CountSkippedTwice(self, r, change) ==
    IF _should_skip_file(self, change)
    THEN [r EXCEPT !.trivial_count = @ + 2]
    ELSE IF self.skip_trivial
    THEN FilterTrivial(r, change, _filter_trivial_lines(change.lines))
    ELSE [r EXCEPT !.filtered_changes = Append(@, change)]

\* the body of the loop of filter_changes
FilterChange(self, r, change) ==
    IF _should_skip_file(self, change)
    THEN [r EXCEPT !.trivial_count = @ + 1]
    ELSE IF self.skip_trivial
    THEN FilterTrivial(r, change, _filter_trivial_lines(change.lines))
    ELSE [r EXCEPT !.filtered_changes = Append(@, change)]

RECURSIVE FilterLoop(_, _, _)
FilterLoop(self, file_changes, r) ==
    IF file_changes = <<>> THEN r
    ELSE FilterLoop(self, Tail(file_changes),
             FilterChange(self, r, Head(file_changes)))

\* filter_changes: what it returns and the trivial_count it leaves
filter_changes(self, file_changes) ==
    FilterLoop(self, file_changes,
        [filtered_changes |-> <<>>, trivial_count |-> 0])


\* ---------------------------------------------------------------------
\* chunker.py

DiffChunk(chunk_number, total_chunks, file_changes, line_count, file_count, summary) ==
    [chunk_number |-> chunk_number, total_chunks |-> total_chunks,
     file_changes |-> file_changes, line_count |-> line_count,
     file_count |-> file_count, summary |-> summary]

\* lst[:k] and lst[k:] of a Python list, k of either sign
SliceStop(lst, k) ==
    IF k >= 0 THEN SubSeq(lst, 1, Min2(k, Len(lst)))
    ELSE SubSeq(lst, 1, Len(lst) + k)

SliceStart(lst, k) ==
    IF k >= 0 THEN SubSeq(lst, k + 1, Len(lst))
    ELSE IF Len(lst) + k >= 0 THEN SubSeq(lst, Len(lst) + k + 1, Len(lst))
    ELSE lst

\* the loop of _add_chunk: the distinct new_path values, first seen first
RECURSIVE FilePaths(_, _)
FilePaths(file_changes, file_paths) ==
    IF file_changes = <<>> THEN file_paths
    ELSE FilePaths(Tail(file_changes),
             IF \E k \in 1..Len(file_paths) :
                    file_paths[k] = Head(file_changes).new_path
             THEN file_paths
             ELSE Append(file_paths, Head(file_changes).new_path))

\* ', '.join(file_paths)
RECURSIVE Join(_)
Join(file_paths) ==
    IF file_paths = <<>> THEN <<>>
    ELSE IF Len(file_paths) = 1 THEN file_paths[1]
    ELSE file_paths[1] \o COMMA \o Join(Tail(file_paths))

_generate_summary(file_changes, file_paths) ==
    IF Len(file_paths) = 1 THEN CHANGES_TO \o file_paths[1]
    ELSE IF Len(file_paths) <= 3 THEN CHANGES_TO \o Join(file_paths)
    ELSE CHANGES_TO \o file_paths[1] \o COMMA \o file_paths[2] \o AND
             \o str(Len(file_paths) - 2) \o OTHER_FILES

NewChunk(chunks, file_changes, line_count, file_paths) ==
    DiffChunk(Len(chunks) + 1, 0, file_changes, line_count, Len(file_paths),
        _generate_summary(file_changes, file_paths))

\* _add_chunk numbering its chunks from 0
AddChunkFromZero(chunks, file_changes, line_count) ==
    Append(chunks,
        DiffChunk(Len(chunks), 0, file_changes, line_count,
            Len(FilePaths(file_changes, <<>>)),
            _generate_summary(file_changes, FilePaths(file_changes, <<>>))))

\* self.chunks after _add_chunk(file_changes, line_count)
_add_chunk(chunks, file_changes, line_count) ==
    Append(chunks,
        NewChunk(chunks, file_changes, line_count,
            FilePaths(file_changes, <<>>)))

\* the test of _split_large_file for a header line
IsHeaderLine(line) ==
    \/ startswith(line, DIFF_GIT)
    \/ startswith(line, INDEX)
    \/ startswith(line, MINUSES)
    \/ startswith(line, PLUSES)
    \/ startswith(line, NEW_FILE_MODE)
    \/ startswith(line, DELETED_FILE_MODE)
    \/ startswith(line, BINARY_FILES)

IsContentLine(line) == ~IsHeaderLine(line)

\* chunk_size of _split_large_file without the header lines taken off
ChunkSizeOfLines(max_lines, header_lines) ==
    IF max_lines - Len(header_lines) <= 0
    THEN max_lines \div 2
    ELSE max_lines

\* chunk_size of _split_large_file; // rounds down
ChunkSize(max_lines, header_lines) ==
    IF max_lines - Len(header_lines) <= 0
    THEN max_lines \div 2
    ELSE max_lines - Len(header_lines)

\* the body of the loop of _split_large_file
SplitChunk(chunks, file_change, chunk_lines) ==
    _add_chunk(chunks, <<WithLines(file_change, chunk_lines)>>,
        Len(chunk_lines))

\* the loop of _split_large_file over range(0, len(content_lines),
\* chunk_size), chunk_size > 0
RECURSIVE SplitLoop(_, _, _, _, _, _)
SplitLoop(chunks, file_change, header_lines, content_lines, chunk_size, i) ==
    IF i >= Len(content_lines) THEN chunks
    ELSE SplitLoop(
             SplitChunk(chunks, file_change,
                 header_lines \o Slice(content_lines, i + 1, i + chunk_size)),
             file_change, header_lines, content_lines, chunk_size,
             i + chunk_size)

\* range() raises ValueError for a step of 0 and is empty for a negative one
SplitBy(chunks, file_change, header_lines, content_lines, chunk_size) ==
    IF chunk_size = 0 THEN [raised |-> TRUE, chunks |-> chunks]
    ELSE IF chunk_size < 0 THEN [raised |-> FALSE, chunks |-> chunks]
    ELSE [raised |-> FALSE,
          chunks |-> SplitLoop(chunks, file_change, header_lines,
                         content_lines, chunk_size, 0)]

SplitLines(chunks, max_lines, file_change, header_lines, content_lines) ==
    SplitBy(chunks, file_change, header_lines, content_lines,
        ChunkSize(max_lines, header_lines))

\* _split_large_file repeating no header line in its sub-chunks
SplitWithoutHeaders(chunks, max_lines, file_change) ==
    SplitLines(chunks, max_lines, file_change, <<>>, file_change.lines)

\* _split_large_file(file_change): self.chunks after it, and whether it
\* raised
_split_large_file(chunks, max_lines, file_change) ==
    SplitLines(chunks, max_lines, file_change,
        SelectSeq(file_change.lines, IsHeaderLine),
        SelectSeq(file_change.lines, IsContentLine))

\* the loop state s (chunks, current_chunk_files, current_line_count) with
\* the pending files made a chunk
Flush(s) ==
    [s EXCEPT !.chunks = _add_chunk(s.chunks, s.current_chunk_files,
                             s.current_line_count),
              !.current_chunk_files = <<>>,
              !.current_line_count = 0]

\* _chunk_by_file_boundaries never closing the chunk it is filling
KeepOpen(s, max_lines, file_line_count) == s

\* _chunk_by_file_boundaries: 'if adding this file would exceed max_lines
\* and we have files in current chunk'
CloseIfFull(s, max_lines, file_line_count) ==
    IF /\ s.current_line_count + file_line_count > max_lines
       /\ s.current_chunk_files # <<>>
    THEN Flush(s)
    ELSE s

\* _chunk_by_file_boundaries: 'add any pending files first'
FlushPending(s) == IF s.current_chunk_files # <<>> THEN Flush(s) ELSE s

Split(s, split) == [s EXCEPT !.chunks = split.chunks, !.raised = split.raised]

SplitLargeFile(s, max_lines, file_change) ==
    Split(s, _split_large_file(s.chunks, max_lines, file_change))

\* _chunk_by_file_boundaries: 'if single file exceeds max_lines, split it',
\* else 'add file to current chunk'
PlaceFile(s, max_lines, file_change) ==
    IF Len(file_change.lines) > max_lines
    THEN SplitLargeFile(FlushPending(s), max_lines, file_change)
    ELSE [s EXCEPT !.current_chunk_files = Append(@, file_change),
                   !.current_line_count = @ + Len(file_change.lines)]

\* one iteration of the loop of _chunk_by_file_boundaries, on file_change
FileBoundaryStep(s, max_lines, file_change) ==
    PlaceFile(CloseIfFull(s, max_lines, Len(file_change.lines)), max_lines,
        file_change)

\* _chunk_by_line_count: 'current chunk is full, start new one'
OpenIfFull(s, max_lines) ==
    IF max_lines - s.current_line_count <= 0
    THEN [s EXCEPT
             !.chunks = IF s.current_chunk_files # <<>>
                        THEN _add_chunk(s.chunks, s.current_chunk_files,
                                 s.current_line_count)
                        ELSE s.chunks,
             !.current_chunk_files = <<>>,
             !.current_line_count = 0]
    ELSE s

\* available_space of _chunk_by_line_count forgetting the lines taken
WholeChunk(s, max_lines) == max_lines

\* available_space of _chunk_by_line_count
AvailableSpace(s, max_lines) ==
    IF max_lines - s.current_line_count <= 0 THEN max_lines
    ELSE max_lines - s.current_line_count

\* 'take lines up to available space', one line more dropped from
\* remaining_lines than was taken
TakeLinesSkipping(s, file_change, remaining_lines, lines_to_take) ==
    [s EXCEPT
        !.current_chunk_files =
            Append(@, WithLines(file_change,
                          SliceStop(remaining_lines, lines_to_take))),
        !.current_line_count =
            @ + Len(SliceStop(remaining_lines, lines_to_take)),
        !.remaining_lines = SliceStart(remaining_lines, lines_to_take + 1)]

\* _chunk_by_line_count: 'take lines up to available space'
TakeLines(s, file_change, remaining_lines, lines_to_take) ==
    [s EXCEPT
        !.current_chunk_files =
            Append(@, WithLines(file_change,
                          SliceStop(remaining_lines, lines_to_take))),
        !.current_line_count =
            @ + Len(SliceStop(remaining_lines, lines_to_take)),
        !.remaining_lines = SliceStart(remaining_lines, lines_to_take)]

\* one iteration of the while loop of _chunk_by_line_count, on file_change
\* with remaining_lines left
LineCountStep(s, max_lines, file_change, remaining_lines) ==
    TakeLines(OpenIfFull(s, max_lines), file_change, remaining_lines,
        Min2(Len(remaining_lines), AvailableSpace(s, max_lines)))

Stamp(chunk, total_chunks) == [chunk EXCEPT !.total_chunks = total_chunks]

\* get_chunk with chunk_number counted from 0
GetChunkFromZero(chunks, chunk_number) ==
    IF 0 <= chunk_number /\ chunk_number < Len(chunks)
    THEN [chunk |-> <<Stamp(chunks[chunk_number + 1], Len(chunks))>>,
          chunks |-> [chunks EXCEPT
                         ![chunk_number + 1] = Stamp(@, Len(chunks))]]
    ELSE [chunk |-> <<>>, chunks |-> chunks]

\* get_chunk(chunk_number): the chunk handed back (None is <<>>) and
\* self.chunks, that chunk stamped
get_chunk(chunks, chunk_number) ==
    IF 1 <= chunk_number /\ chunk_number <= Len(chunks)
    THEN [chunk |-> <<Stamp(chunks[chunk_number], Len(chunks))>>,
          chunks |-> [chunks EXCEPT
                         ![chunk_number] = Stamp(@, Len(chunks))]]
    ELSE [chunk |-> <<>>, chunks |-> chunks]

\* get_all_chunks(): self.chunks, every chunk stamped
get_all_chunks(chunks) ==
    [k \in 1..Len(chunks) |-> Stamp(chunks[k], Len(chunks))]

\* get_chunk_count()
get_chunk_count(chunks) == Len(chunks)

\* the sum of field f of the chunks
RECURSIVE SumOf(_, _)
SumOf(chunks, f) ==
    IF chunks = <<>> THEN 0 ELSE Head(chunks)[f] + SumOf(Tail(chunks), f)

\* the largest and the least line_count of chunks, which is not empty
RECURSIVE MaxLineCount(_)
MaxLineCount(chunks) ==
    IF Len(chunks) = 1 THEN chunks[1].line_count
    ELSE IF chunks[1].line_count >= MaxLineCount(Tail(chunks))
    THEN chunks[1].line_count
    ELSE MaxLineCount(Tail(chunks))

RECURSIVE MinLineCount(_)
MinLineCount(chunks) ==
    IF Len(chunks) = 1 THEN chunks[1].line_count
    ELSE IF chunks[1].line_count <= MinLineCount(Tail(chunks))
    THEN chunks[1].line_count
    ELSE MinLineCount(Tail(chunks))

\* round(a / b, 1) in tenths, a >= 0 and b > 0: to the nearest tenth, a
\* half to the even one
RoundTenths(a, b) ==
    IF 2 * ((10 * a) % b) < b THEN (10 * a) \div b
    ELSE IF 2 * ((10 * a) % b) > b THEN (10 * a) \div b + 1
    ELSE IF ((10 * a) \div b) % 2 = 0 THEN (10 * a) \div b
    ELSE (10 * a) \div b + 1

\* get_chunk_stats(): {} is <<>>, avg_lines_per_chunk is in tenths
get_chunk_stats(chunks) ==
    IF chunks = <<>> THEN <<>>
    ELSE [total_chunks |-> Len(chunks),
          total_lines |-> SumOf(chunks, "line_count"),
          total_files |-> SumOf(chunks, "file_count"),
          avg_lines_per_chunk |->
              RoundTenths(SumOf(chunks, "line_count"), Len(chunks)),
          max_lines_per_chunk |-> MaxLineCount(chunks),
          min_lines_per_chunk |-> MinLineCount(chunks)]


\* ---------------------------------------------------------------------
\* bounds

\* the longest input of the parser specification, in lines
MaxInputLen == 4

\* the longest diff of the pipeline specification, in lines
MaxDiffLines == 5

\* max_lines is drawn from -NegLines..MaxMaxLines
NegLines == 1

MaxMaxLines == 4

\* the calls of get_chunk and get_all_chunks on one chunker
MaxCalls == 1

\* the records a loop that no longer advances is followed for
MaxSpin == 2

\* the calls of filter_changes on one filter
MaxFilterCalls == 2

\* the calls of parse_stream on one parser
MaxParseCalls == 2

\* the longest text a later call of parse_stream is given, in lines
MaxAgainLen == 3

\* the patterns add_custom_pattern is given on one filter
MaxCustom == 1

\* the other filters made
MaxOthers == 1

\* the most files in a list chunk_changes is given on its own
MaxFiles == 3

\* the calls of chunk_changes on one chunker
MaxChunkCalls == 2

\* the longest line _is_trivial_line is given on its own, in characters
MaxLineLen == 4

\* ---------------------------------------------------------------------
\* inputs

\* 'diff --git a/x b/x\n'
LineHeaderX ==
    <<"d", "i", "f", "f", " ", "-", "-", "g", "i", "t", " ", "a", "/", "x",
      " ", "b", "/", "x", "\n">>

\* 'diff --git a/y b/y\n'
LineHeaderY ==
    <<"d", "i", "f", "f", " ", "-", "-", "g", "i", "t", " ", "a", "/", "y",
      " ", "b", "/", "y", "\n">>

\* 'new file mode 100644\n'
LineNewFileMode ==
    <<"n", "e", "w", " ", "f", "i", "l", "e", " ", "m", "o", "d", "e", " ",
      "1", "0", "0", "6", "4", "4", "\n">>

\* 'deleted file mode 100644\n'
LineDeletedFileMode ==
    <<"d", "e", "l", "e", "t", "e", "d", " ", "f", "i", "l", "e", " ", "m",
      "o", "d", "e", " ", "1", "0", "0", "6", "4", "4", "\n">>

\* '--- a/x\n'
LineOldFile ==
    <<"-", "-", "-", " ", "a", "/", "x", "\n">>

\* '@@ -1 +1 @@\n'
LineHunk ==
    <<"@", "@", " ", "-", "1", " ", "+", "1", " ", "@", "@", "\n">>

\* '@@ -2,3 +4,5 @@ f\n'
LineHunkCounts ==
    <<"@", "@", " ", "-", "2", ",", "3", " ", "+", "4", ",", "5", " ", "@",
      "@", " ", "f", "\n">>

\* '+a\n'
LineAdded ==
    <<"+", "a", "\n">>

\* '-b\n'
LineRemoved ==
    <<"-", "b", "\n">>

\* ' c\n'
LineContext ==
    <<" ", "c", "\n">>

\* '+ \n'
LineBlankAdded ==
    <<"+", " ", "\n">>

\* '+a \n'
LineTrailingSpace ==
    <<"+", "a", " ", "\n">>

\* 'junk\n'
LineJunk ==
    <<"j", "u", "n", "k", "\n">>

\* 'Binary files a/x and b/x differ\n'
LineBinary ==
    <<"B", "i", "n", "a", "r", "y", " ", "f", "i", "l", "e", "s", " ", "a",
      "/", "x", " ", "a", "n", "d", " ", "b", "/", "x", " ", "d", "i", "f",
      "f", "e", "r", "\n">>

\* the lines the parser specification draws its input from
ParseAlphabet ==
    {LineHeaderX, LineHeaderY, LineNewFileMode, LineDeletedFileMode,
     LineOldFile, LineHunk, LineHunkCounts, LineAdded, LineJunk, LineBinary}

ParseInputs == UNION {[1..n -> ParseAlphabet] : n \in 0..MaxInputLen}

Paths == <<<<"x">>, <<"y">>, <<"b", "i", "n", "/", "x">>>>

PathAt(k) == Paths[((k - 1) % Len(Paths)) + 1]

HeaderLine(p) == DIFF_GIT_A \o p \o SP_B \o p \o <<"\n">>

ContentPool ==
    <<LineAdded, LineBlankAdded, LineTrailingSpace, LineRemoved, LineContext>>

\* n lines of hunk content, the first the one at place from + 1 of the pool
Content(n, from) ==
    [k \in 1..n |-> ContentPool[((from + k - 1) % Len(ContentPool)) + 1]]

\* the sections of a diff for path p, of at most budget lines
Sections(p, budget) ==
    {s \in
        {<<HeaderLine(p)>>,
         <<HeaderLine(p), LineNewFileMode>>,
         <<HeaderLine(p),
           BINARY_FILES \o <<" ", "a", "/">> \o p \o <<" ", "a", "n", "d", " ", "b", "/">> \o p \o DIFFER
               \o <<"\n">>>>,
         <<HeaderLine(p), LineNewFileMode,
           BINARY_FILES \o <<" ", "a", "/">> \o p \o <<" ", "a", "n", "d", " ", "b", "/">> \o p \o DIFFER
               \o <<"\n">>>>}
        \cup {<<HeaderLine(p), LineHunk>> \o Content(n, from) :
                  n \in 0..budget, from \in 0..2}
        \cup {<<HeaderLine(p), OLD_FILE \o <<"a", "/">> \o p \o <<"\n">>,
                NEW_FILE \o <<"b", "/">> \o p \o <<"\n">>, LineHunkCounts>>
              \o Content(n, 0) : n \in 0..budget} :
     Len(s) <= budget}

\* the diffs of at most budget lines whose first file is the k-th
RECURSIVE Diffs(_, _)
Diffs(k, budget) ==
    {<<>>} \cup
    UNION {{s \o rest : rest \in Diffs(k + 1, budget - Len(s))} :
           s \in Sections(PathAt(k), budget)}

\* the diffs a later call of parse_stream on the same parser is given
AgainInputs == Diffs(1, MaxAgainLen)

\* the patterns add_custom_pattern is given, with what pattern.match(path)
\* tests: r'y$' is the whole path, r'x' a prefix of it
CustomPatterns ==
    {[kind |-> "whole", alts |-> {<<"y">>}], [kind |-> "prefix", alts |-> {<<"x">>}]}

\* the one-file diffs for path p whose records chunk_changes is given on
\* its own: a bare header, a new binary file, and hunks of 1, 4 and 3 lines
\* of content under 1, 1 and 3 header lines
FileDiffs(p) ==
    {<<HeaderLine(p)>>,
     <<HeaderLine(p), LineNewFileMode,
       BINARY_FILES \o <<" ", "a", "/">> \o p \o <<" ", "a", "n", "d", " ", "b", "/">> \o p \o DIFFER \o <<"\n">>>>,
     <<HeaderLine(p), LineHunk>> \o Content(1, 0),
     <<HeaderLine(p), LineHunk>> \o Content(3, 0),
     <<HeaderLine(p), OLD_FILE \o <<"a", "/">> \o p \o <<"\n">>,
       NEW_FILE \o <<"b", "/">> \o p \o <<"\n">>, LineHunkCounts>> \o Content(2, 0)}

\* the FileChange the parser makes of a one-file diff for path p
RecordOf(p, diff) == _parse_file_change(diff, 0, p, p).file_change

Records(p) == {RecordOf(p, diff) : diff \in FileDiffs(p)}

\* the lists of at most n FileChange whose first file is the k-th
RECURSIVE FileLists(_, _)
FileLists(k, n) ==
    {<<>>} \cup
    (IF n = 0 THEN {}
     ELSE {<<r>> \o rest : r \in Records(PathAt(k)),
                           rest \in FileLists(k + 1, n - 1)})

\* the lists chunk_changes is given on its own
ChunkerInputs == FileLists(1, MaxFiles)

\* the lists a later call of chunk_changes on the same chunker is given
AgainFiles == FileLists(1, 1)

\* the characters of the lines _is_trivial_line is given on its own
LineChars == {"+", "-", " ", "\t", "a"}

LineInputs == UNION {[1..n -> LineChars] : n \in 0..MaxLineLen}

MaxLinesValues == (0 - NegLines)..MaxMaxLines


\* ---------------------------------------------------------------------
\* state

VARIABLES
    input,                  \* stream.readlines(), the text parse_stream reads
    parser_pc,              \* "idle", "loop" (in parse_stream), "returned"
    i,                      \* the scan position of parse_stream
    file_changes,           \* DiffParser.file_changes
    stats,                  \* DiffParser.stats
    starts,                 \* start_idx of each call of _parse_file_change
    parse_calls,            \* calls of parse_stream on the parser so far
    filter_pc,              \* "none", "idle" (constructed), "returned"
    skip_trivial,           \* the fields of the ChangeFilter
    skip_generated,
    generated_patterns,
    trivial_count,
    filtered_changes,       \* what filter_changes returned
    filter_arg,             \* the file_changes the last filter_changes was
                            \* given, as they are after the call
    filter_calls,           \* calls of filter_changes on the filter so far
    class_patterns,         \* ChangeFilter.GENERATED_FILE_PATTERNS, the list
                            \* of the class
    others,                 \* generated_patterns of each other ChangeFilter
    added,                  \* what add_custom_pattern was given so far
    chunker_pc,             \* "none", "idle", "by_file_boundaries",
                            \* "by_line_count", "returned", "raised"
    max_lines,              \* the fields of the DiffChunker
    prefer_file_boundaries,
    chunks,
    todo,                   \* the file_changes the for loop has yet to reach
    current_chunk_files,    \* the locals of the chunking loops
    current_line_count,
    file_change,            \* the file of the while loop of
    remaining_lines,        \*   _chunk_by_line_count, and what is left of it
    returned,               \* the last result a chunker method handed to its
                            \* caller, as it was when handed over, and for
                            \* get_chunk the chunk_number it was given
    calls,                  \* calls of get_chunk and get_all_chunks so far
    chunk_calls,            \* calls of chunk_changes so far
    line,                   \* the line _is_trivial_line is given
    is_trivial              \* <<>>, then what _is_trivial_line returned

parser_vars == <<input, parser_pc, i, file_changes, stats, starts, parse_calls>>

pattern_vars == <<class_patterns, others, added>>

filter_vars == <<filter_pc, skip_trivial, skip_generated, generated_patterns,
                 trivial_count, filtered_changes, filter_arg, filter_calls,
                 pattern_vars>>

loop_vars == <<todo, current_chunk_files, current_line_count, file_change,
               remaining_lines>>

chunker_vars == <<chunker_pc, max_lines, prefer_file_boundaries, chunks,
                  returned, calls, chunk_calls>>

line_vars == <<line, is_trivial>>

vars == <<parser_vars, filter_vars, loop_vars, chunker_vars, line_vars>>

NoFile == FileChange(<<>>, <<>>, 0, 0, 0, 0, <<>>, FALSE, FALSE, FALSE)

\* DiffParser(): nothing parsed, and no filter and no chunker yet
Constructed ==
    /\ parser_pc = "idle" /\ i = 0 /\ file_changes = <<>>
    /\ stats = DiffStats(0, 0, 0, 0, 0, 0) /\ starts = <<>> /\ parse_calls = 0
    /\ filter_pc = "none" /\ skip_trivial = TRUE /\ skip_generated = TRUE
    /\ generated_patterns = <<>> /\ trivial_count = 0
    /\ filtered_changes = <<>> /\ filter_arg = <<>> /\ filter_calls = 0
    /\ class_patterns = GENERATED_FILE_PATTERNS /\ others = <<>> /\ added = <<>>
    /\ chunker_pc = "none" /\ max_lines = 0
    /\ prefer_file_boundaries = TRUE /\ chunks = <<>>
    /\ todo = <<>> /\ current_chunk_files = <<>> /\ current_line_count = 0
    /\ file_change = NoFile /\ remaining_lines = <<>>
    /\ returned = [op |-> "none", value |-> <<>>] /\ calls = 0
    /\ chunk_calls = 0

\* no line classified on its own
NoLine == line = <<>> /\ is_trivial = <<>>

Init == input \in Diffs(1, MaxDiffLines) /\ Constructed /\ NoLine

InitParse == input \in ParseInputs /\ Constructed /\ NoLine

InitLine ==
    /\ input = <<>> /\ Constructed
    /\ line \in LineInputs /\ is_trivial = <<>>

\* a list of FileChange handed to the chunker without the parser: the
\* parser unused, and a filter that skips nothing back from its one call
\* on the list
InitChunker ==
    /\ input = <<>> /\ NoLine
    /\ parser_pc = "idle" /\ i = 0 /\ file_changes = <<>>
    /\ stats = DiffStats(0, 0, 0, 0, 0, 0) /\ starts = <<>> /\ parse_calls = 0
    /\ filter_pc = "returned" /\ skip_trivial = FALSE /\ skip_generated = FALSE
    /\ generated_patterns = GENERATED_FILE_PATTERNS /\ trivial_count = 0
    /\ filtered_changes \in ChunkerInputs /\ filter_arg = filtered_changes
    /\ filter_calls = 1
    /\ class_patterns = GENERATED_FILE_PATTERNS /\ others = <<>> /\ added = <<>>
    /\ chunker_pc = "none" /\ max_lines = 0
    /\ prefer_file_boundaries = TRUE /\ chunks = <<>>
    /\ todo = <<>> /\ current_chunk_files = <<>> /\ current_line_count = 0
    /\ file_change = NoFile /\ remaining_lines = <<>>
    /\ returned = [op |-> "none", value |-> <<>>] /\ calls = 0
    /\ chunk_calls = 0

\* ---------------------------------------------------------------------
\* parser

\* parse_stream, up to its loop, without its 'self.stats = DiffStats()'
EnterKeepingStats(lines) ==
    /\ input' = lines
    /\ parser_pc' = "loop"
    /\ file_changes' = <<>>
    /\ stats' = [stats EXCEPT !.total_lines = Len(lines)]
    /\ i' = 0
    /\ starts' = <<>>
    /\ parse_calls' = parse_calls + 1
    /\ UNCHANGED <<filter_vars, line_vars, loop_vars, chunker_vars>>

\* parse_stream, up to its loop, on the lines it is given
ParseStreamEnter(lines) ==
    /\ input' = lines
    /\ parser_pc' = "loop"
    /\ file_changes' = <<>>
    /\ stats' = DiffStats(Len(lines), 0, 0, 0, 0, 0)
    /\ i' = 0
    /\ starts' = <<>>
    /\ parse_calls' = parse_calls + 1
    /\ UNCHANGED <<filter_vars, line_vars, loop_vars, chunker_vars>>

ParseStreamCall ==
    /\ parser_pc = "idle"
    /\ ParseStreamEnter(input)

\* parse_stream called once more on the same parser, with other lines
ParseStreamAgain ==
    /\ parser_pc = "returned" /\ filter_pc = "none"
    /\ parse_calls < MaxParseCalls
    /\ \E lines \in AgainInputs : ParseStreamEnter(lines)

\* parse_stream: 'if file_change:', with what _parse_file_change returned
FileParsed(parsed) ==
    /\ i' = parsed.i
    /\ file_changes' = Append(file_changes, parsed.file_change)
    /\ stats' = [stats EXCEPT
                    !.files_changed = @ + 1,
                    !.binary_files = IF parsed.file_change.is_binary
                                     THEN @ + 1 ELSE @]
    /\ starts' = Append(starts, i)

LineScanned(match) ==
    IF match.matched
    THEN FileParsed(_parse_file_change(input, i, match.groups[1],
             match.groups[2]))
    ELSE /\ i' = i + 1
         /\ UNCHANGED <<file_changes, stats, starts>>

\* one iteration of the loop of parse_stream
ParseStreamStep ==
    /\ parser_pc = "loop"
    /\ i < Len(input)
    /\ Len(file_changes) < Len(input) + MaxSpin
    /\ LineScanned(FILE_HEADER_PATTERN(rstrip(input[i + 1])))
    /\ UNCHANGED <<input, parser_pc, parse_calls, filter_vars, line_vars, loop_vars, chunker_vars>>

\* parse_stream, from the end of its loop
ParseStreamReturn ==
    /\ parser_pc = "loop"
    /\ i >= Len(input)
    /\ parser_pc' = "returned"
    /\ stats' = CountStats(stats, file_changes)
    /\ UNCHANGED <<input, i, file_changes, starts, parse_calls, filter_vars, line_vars, loop_vars,
                   chunker_vars>>

\* ---------------------------------------------------------------------
\* filter

\* ChangeFilter(skip_trivial, skip_generated), made as main makes it: once
\* parse_stream has been called once
NewChangeFilter ==
    /\ parser_pc = "returned" /\ parse_calls = 1
    /\ filter_pc = "none"
    /\ filter_pc' = "idle"
    /\ skip_trivial' \in BOOLEAN
    /\ skip_generated' \in BOOLEAN
    /\ generated_patterns' = class_patterns
    /\ trivial_count' = 0
    /\ UNCHANGED <<filtered_changes, filter_arg, filter_calls, pattern_vars,
                   parser_vars, line_vars, loop_vars, chunker_vars>>

\* add_custom_pattern(pattern) appending to the list of the class as well
AddCustomShared(pattern) ==
    /\ generated_patterns' = Append(generated_patterns, pattern)
    /\ class_patterns' = Append(class_patterns, pattern)
    /\ added' = Append(added, pattern)
    /\ UNCHANGED <<filter_pc, skip_trivial, skip_generated, trivial_count,
                   filtered_changes, filter_arg, filter_calls, others,
                   parser_vars, line_vars, loop_vars, chunker_vars>>

\* add_custom_pattern(pattern)
AddCustom(pattern) ==
    /\ generated_patterns' = Append(generated_patterns, pattern)
    /\ added' = Append(added, pattern)
    /\ UNCHANGED <<filter_pc, skip_trivial, skip_generated, trivial_count,
                   filtered_changes, filter_arg, filter_calls, class_patterns,
                   others, parser_vars, line_vars, loop_vars, chunker_vars>>

\* add_custom_pattern on the filter, before it filters
AddCustomPattern ==
    /\ filter_pc = "idle"
    /\ Len(added) < MaxCustom
    /\ \E pattern \in CustomPatterns : AddCustom(pattern)

\* ChangeFilter() once more: another filter, before or after the patterns
\* added to the first
NewOtherFilter ==
    /\ parser_pc = "returned"
    /\ Len(others) < MaxOthers
    /\ others' = Append(others, class_patterns)
    /\ UNCHANGED <<filter_pc, skip_trivial, skip_generated, generated_patterns,
                   trivial_count, filtered_changes, filter_arg, filter_calls,
                   class_patterns, added, parser_vars, line_vars, loop_vars,
                   chunker_vars>>

Filtered(r) ==
    /\ filtered_changes' = r.filtered_changes
    /\ trivial_count' = r.trivial_count

\* filter_changes trimming the lines of the records it is given in place
FilterCallInPlace(arg) ==
    /\ Filtered(filter_changes([skip_trivial |-> skip_trivial, skip_generated |-> skip_generated,
           generated_patterns |-> generated_patterns], arg))
    /\ filter_arg' = [k \in 1..Len(arg) |->
                         [arg[k] EXCEPT !.lines = _filter_trivial_lines(@)]]
    /\ filter_calls' = filter_calls + 1
    /\ filter_pc' = "returned"
    /\ UNCHANGED <<skip_trivial, skip_generated, generated_patterns, pattern_vars, parser_vars, line_vars, loop_vars, chunker_vars>>

\* filter_changes(arg) on the filter as it is
FilterCall(arg) ==
    /\ Filtered(filter_changes(
           [skip_trivial |-> skip_trivial, skip_generated |-> skip_generated,
            generated_patterns |-> generated_patterns], arg))
    /\ filter_arg' = arg
    /\ filter_calls' = filter_calls + 1
    /\ filter_pc' = "returned"
    /\ UNCHANGED <<skip_trivial, skip_generated, generated_patterns,
                   pattern_vars, parser_vars, line_vars, loop_vars,
                   chunker_vars>>

\* filter_changes(file_changes), on what the parser returned
FilterChanges ==
    /\ filter_pc = "idle"
    /\ FilterCall(file_changes)

\* filter_changes again on the same filter, on what it returned last; the
\* pipeline filters before it chunks
FilterOwnOutput ==
    /\ filter_pc = "returned"
    /\ chunker_pc = "none"
    /\ filter_calls < MaxFilterCalls
    /\ FilterCall(filtered_changes)

\* ---------------------------------------------------------------------
\* chunker

\* DiffChunker(max_lines, prefer_file_boundaries), made as main makes it:
\* once filter_changes has been called once
NewDiffChunker ==
    /\ filter_pc = "returned" /\ filter_calls = 1
    /\ chunker_pc = "none"
    /\ chunker_pc' = "idle"
    /\ max_lines' \in MaxLinesValues
    /\ prefer_file_boundaries' \in BOOLEAN
    /\ chunks' = <<>>
    /\ UNCHANGED <<returned, calls, chunk_calls, parser_vars, line_vars,
                   filter_vars, loop_vars>>

\* chunk_changes(file_changes), up to the loop of the chunking method
ChunkChangesEnter(arg) ==
    /\ IF arg = <<>>
       THEN /\ chunker_pc' = "returned"
            /\ returned' = [op |-> "chunk_changes", value |-> <<>>]
            /\ UNCHANGED <<chunks, loop_vars>>
       ELSE /\ chunker_pc' = IF prefer_file_boundaries
                             THEN "by_file_boundaries" ELSE "by_line_count"
            /\ chunks' = <<>>
            /\ todo' = arg
            /\ current_chunk_files' = <<>>
            /\ current_line_count' = 0
            /\ file_change' = NoFile
            /\ remaining_lines' = <<>>
            /\ UNCHANGED returned
    /\ chunk_calls' = chunk_calls + 1
    /\ UNCHANGED <<max_lines, prefer_file_boundaries, calls, parser_vars,
                   line_vars>>

\* chunk_changes on what the filter returned; main calls it before it reads
\* any chunk
ChunkChangesCall ==
    /\ chunker_pc = "idle" /\ calls = 0
    /\ ChunkChangesEnter(filtered_changes)
    /\ UNCHANGED filter_vars

\* chunk_changes again on the same chunker, on another list, before any
\* chunk is read; filtered_changes is the list chunk_changes was last
\* called on
ChunkChangesAgain ==
    /\ chunker_pc = "returned" /\ calls = 0
    /\ chunk_calls < MaxChunkCalls
    /\ \E arg \in AgainFiles :
           /\ filtered_changes' = arg
           /\ ChunkChangesEnter(arg)
    /\ UNCHANGED <<filter_pc, skip_trivial, skip_generated, generated_patterns,
                   trivial_count, filter_arg, filter_calls, pattern_vars>>

LoopState ==
    [chunks |-> chunks, current_chunk_files |-> current_chunk_files,
     current_line_count |-> current_line_count,
     remaining_lines |-> remaining_lines, raised |-> FALSE]

Looped(s) ==
    /\ chunks' = s.chunks
    /\ current_chunk_files' = s.current_chunk_files
    /\ current_line_count' = s.current_line_count
    /\ remaining_lines' = s.remaining_lines
    /\ chunker_pc' = IF s.raised THEN "raised" ELSE chunker_pc

\* one iteration of the loop of _chunk_by_file_boundaries
ChunkByFileBoundariesStep ==
    /\ chunker_pc = "by_file_boundaries"
    /\ todo # <<>>
    /\ Looped(FileBoundaryStep(LoopState, max_lines, Head(todo)))
    /\ todo' = Tail(todo)
    /\ UNCHANGED <<file_change, max_lines, prefer_file_boundaries, returned,
                   calls, chunk_calls, parser_vars, line_vars, filter_vars>>

RECURSIVE TotalLines(_)
TotalLines(changes) ==
    IF changes = <<>> THEN 0
    ELSE Len(Head(changes).lines) + TotalLines(Tail(changes))

RECURSIVE Partials(_)
Partials(cs) ==
    IF cs = <<>> THEN 0
    ELSE Len(Head(cs).file_changes) + Partials(Tail(cs))

\* one iteration of the while loop of _chunk_by_line_count: on the file it
\* is in, or on the next file of the for loop when that one has no lines left
ChunkByLineCountStep ==
    /\ chunker_pc = "by_line_count"
    /\ remaining_lines # <<>> \/ todo # <<>>
    /\ Partials(chunks) + Len(current_chunk_files)
           < TotalLines(filtered_changes) + MaxSpin
    /\ IF remaining_lines # <<>>
       THEN /\ Looped(LineCountStep(LoopState, max_lines, file_change,
                   remaining_lines))
            /\ UNCHANGED <<todo, file_change>>
       ELSE /\ todo' = Tail(todo)
            /\ file_change' = Head(todo)
            /\ IF Head(todo).lines # <<>>
               THEN Looped(LineCountStep(LoopState, max_lines, Head(todo),
                        Head(todo).lines))
               ELSE UNCHANGED <<chunks, current_chunk_files,
                                current_line_count, remaining_lines,
                                chunker_pc>>
    /\ UNCHANGED <<max_lines, prefer_file_boundaries, returned, calls,
                   chunk_calls, parser_vars, line_vars, filter_vars>>

\* the end of the chunking method and of chunk_changes: 'add remaining files
\* as final chunk', the locals of the method gone, and self.chunks handed to
\* the caller
ChunkChangesReturn ==
    /\ chunker_pc \in {"by_file_boundaries", "by_line_count"}
    /\ todo = <<>> /\ remaining_lines = <<>>
    /\ chunks' = IF current_chunk_files # <<>>
                 THEN _add_chunk(chunks, current_chunk_files,
                          current_line_count)
                 ELSE chunks
    /\ returned' = [op |-> "chunk_changes", value |-> chunks']
    /\ chunker_pc' = "returned"
    /\ current_chunk_files' = <<>>
    /\ current_line_count' = 0
    /\ file_change' = NoFile
    /\ UNCHANGED <<todo, remaining_lines, max_lines, prefer_file_boundaries,
                   calls, chunk_calls, parser_vars, line_vars, filter_vars>>

GotChunk(chunk_number, r) ==
    /\ chunks' = r.chunks
    /\ returned' = [op |-> "get_chunk", arg |-> chunk_number, value |-> r.chunk]

\* get_chunk(chunk_number)
GetChunk ==
    /\ chunker_pc \in {"idle", "returned", "raised"}
    /\ calls < MaxCalls
    /\ \E chunk_number \in (0 - 1)..(Len(chunks) + 1) :
           GotChunk(chunk_number, get_chunk(chunks, chunk_number))
    /\ calls' = calls + 1
    /\ UNCHANGED <<chunker_pc, max_lines, prefer_file_boundaries, chunk_calls,
                   loop_vars, parser_vars, line_vars, filter_vars>>

\* get_all_chunks()
GetAllChunks ==
    /\ chunker_pc \in {"idle", "returned", "raised"}
    /\ calls < MaxCalls
    /\ chunks' = get_all_chunks(chunks)
    /\ returned' = [op |-> "get_all_chunks", value |-> chunks']
    /\ calls' = calls + 1
    /\ UNCHANGED <<chunker_pc, max_lines, prefer_file_boundaries, chunk_calls,
                   loop_vars, parser_vars, line_vars, filter_vars>>

\* ---------------------------------------------------------------------
\* specifications

NextParse == ParseStreamCall \/ ParseStreamStep \/ ParseStreamReturn \/ ParseStreamAgain

Next ==
    \/ ParseStreamCall \/ ParseStreamStep \/ ParseStreamReturn \/ ParseStreamAgain
    \/ NewChangeFilter \/ FilterChanges \/ FilterOwnOutput
    \/ NewDiffChunker \/ ChunkChangesCall
    \/ ChunkByFileBoundariesStep \/ ChunkByLineCountStep
    \/ ChunkChangesReturn
    \/ GetChunk \/ GetAllChunks

\* the whole pipeline, on the diffs of Diffs
Spec == Init /\ [][Next]_vars

NextPatterns ==
    \/ ParseStreamCall \/ ParseStreamStep \/ ParseStreamReturn
    \/ NewChangeFilter \/ AddCustomPattern \/ NewOtherFilter
    \/ FilterChanges

\* parser and filters, with patterns added to the filter and other filters made
SpecPatterns == Init /\ [][NextPatterns]_vars

NextChunker ==
    \/ NewDiffChunker \/ ChunkChangesCall \/ ChunkChangesAgain
    \/ ChunkByFileBoundariesStep \/ ChunkByLineCountStep
    \/ ChunkChangesReturn
    \/ GetChunk \/ GetAllChunks

\* the chunker alone, on every list of ChunkerInputs
SpecChunker == InitChunker /\ [][NextChunker]_vars

\* the parser alone, on every sequence of lines of ParseAlphabet
SpecParse == InitParse /\ [][NextParse]_vars

\* _is_trivial_line(line)
IsTrivialLine ==
    /\ is_trivial = <<>>
    /\ is_trivial' = <<_is_trivial_line(line)>>
    /\ UNCHANGED <<line, parser_vars, filter_vars, loop_vars, chunker_vars>>

NextLine == IsTrivialLine

\* _is_trivial_line alone, on every line of LineInputs
SpecLine == InitLine /\ [][NextLine]_vars


\* ---------------------------------------------------------------------
\* properties

\* the FileChange records of the chunks cs, chunk by chunk
RECURSIVE Partials_of(_)
Partials_of(cs) ==
    IF cs = <<>> THEN <<>>
    ELSE Head(cs).file_changes \o Partials_of(Tail(cs))

\* every FileChange the chunker holds: those of its chunks, then those of
\* the chunk it is filling
AllPartials == Partials_of(chunks) \o current_chunk_files

\* lines is not empty and starts with the diff --git line of the file
IsHeaderFirst(change) ==
    /\ change.lines # <<>>
    /\ change.lines[1]
           = DIFF_GIT_A \o change.old_path \o SP_B \o change.new_path

\* the 1-based index of the first diff --git line of lines after index k,
\* Len(lines) + 1 when there is none
RECURSIVE SectionEnd(_, _)
SectionEnd(lines, k) ==
    IF k >= Len(lines) THEN Len(lines) + 1
    ELSE IF startswith(lines[k + 1], DIFF_GIT) THEN k + 1
    ELSE SectionEnd(lines, k + 1)

\* the section of lines whose diff --git line is lines[start_idx] counted
\* from 0, line terminators removed
Section(lines, start_idx) ==
    [j \in 1..(SectionEnd(lines, start_idx + 1) - start_idx - 1) |->
        rstrip(lines[start_idx + j])]

\* C1: parse_stream terminates on every finite input; after each file
\* section is parsed, the scan position is strictly greater than the
\* position of that section's diff --git line.
C1_ScanPassesHeader ==
    \A k \in 1..Len(starts) :
        /\ k < Len(starts) => starts[k + 1] > starts[k]
        /\ k = Len(starts) => i > starts[k]

\* C2: the lines of every FileChange parse_stream produces are exactly the
\* lines of its section of the input, from its diff --git line up to the
\* next diff --git line or the end of the input, in order, none omitted,
\* none repeated, none from outside the section.
C2_FaithfulReconstruction ==
    \A k \in 1..Len(file_changes) :
        file_changes[k].lines = Section(input, starts[k])

\* C3: every chunk handed to a caller by chunk_changes, get_chunk or
\* get_all_chunks has total_chunks equal to the number of chunks of the
\* chunking it belongs to.
C3_NoStaleTotal ==
    /\ returned.op \in {"chunk_changes", "get_all_chunks"} =>
           \A k \in 1..Len(returned.value) :
               returned.value[k].total_chunks = Len(returned.value)
    /\ returned.op = "get_chunk" =>
           \A k \in 1..Len(returned.value) :
               returned.value[k].total_chunks = Len(chunks)

\* C4: the chunks get_all_chunks() returns are numbered 1, 2, ..,
\* len(chunks) in list order, and total_chunks of each is len(chunks).
C4_Numbering ==
    returned.op = "get_all_chunks" =>
        \A k \in 1..Len(returned.value) :
            /\ returned.value[k].chunk_number = k
            /\ returned.value[k].total_chunks = Len(returned.value)

C4_Witness ==
    /\ returned.op = "get_all_chunks"
    /\ chunker_pc = "returned"
    /\ filtered_changes # <<>>
    /\ Len(returned.value) >= 3

\* C5: for every positive max_lines, chunk_changes returns its chunks
\* without raising, in file-boundary mode and in strict mode.
C5_NoRaise == max_lines > 0 => chunker_pc # "raised"

\* C6: constructing a chunker with max_lines <= 0 fails, so no chunker
\* exists, and no chunk_changes runs, with max_lines <= 0.
C6_PositiveMaxLines == chunker_pc # "none" => max_lines > 0

\* the number of places of the chunks that hold change
Occurrences(change) ==
    Cardinality({k \in 1..Len(Partials_of(chunks)) :
                    Partials_of(chunks)[k] = change})

RECURSIVE SubChunks(_, _)
SubChunks(partials, path) ==
    IF partials = <<>> THEN <<>>
    ELSE IF Head(partials).new_path = path
    THEN <<Head(partials)>> \o SubChunks(Tail(partials), path)
    ELSE SubChunks(Tail(partials), path)

RECURSIVE ContentOf(_)
ContentOf(partials) ==
    IF partials = <<>> THEN <<>>
    ELSE SelectSeq(Head(partials).lines, IsContentLine)
             \o ContentOf(Tail(partials))

Covered(change, subs) ==
    IF Len(change.lines) <= max_lines
    THEN Occurrences(change) = 1
    ELSE /\ \A k \in 1..Len(subs) :
                SelectSeq(subs[k].lines, IsHeaderLine)
                    = SelectSeq(change.lines, IsHeaderLine)
         /\ ContentOf(subs) = SelectSeq(change.lines, IsContentLine)

\* C7: in file-boundary mode every input FileChange of at most max_lines
\* lines is, whole, in exactly one chunk, and every longer one has all its
\* header lines in each of its sub-chunks and its content lines spread over
\* them in order, each in exactly one.
C7_PartitionCoverage ==
    (prefer_file_boundaries /\ chunker_pc \in {"returned", "raised"}) =>
        \A k \in 1..Len(filtered_changes) :
            Covered(filtered_changes[k],
                SubChunks(Partials_of(chunks),
                    filtered_changes[k].new_path))

\* the chunk is a sub-chunk of an input file of more than max_lines lines,
\* max_lines or more of them header lines
FallbackHalving(chunk) ==
    /\ Len(chunk.file_changes) = 1
    /\ \E k \in 1..Len(filtered_changes) :
           /\ filtered_changes[k].new_path = chunk.file_changes[1].new_path
           /\ Len(filtered_changes[k].lines) > max_lines
           /\ Len(SelectSeq(filtered_changes[k].lines, IsHeaderLine))
                  >= max_lines

\* C8: in file-boundary mode with a positive max_lines, line_count of every
\* chunk is the number of lines its file_changes hold, and is at most
\* max_lines unless the chunk is a sub-chunk of an oversized file with
\* max_lines header lines or more.
C8_SizeBound ==
    (prefer_file_boundaries /\ max_lines > 0) =>
        \A k \in 1..Len(chunks) :
            /\ chunks[k].line_count = TotalLines(chunks[k].file_changes)
            /\ \/ chunks[k].line_count <= max_lines
               \/ FallbackHalving(chunks[k])

C8_Witness ==
    /\ prefer_file_boundaries /\ max_lines > 0
    /\ chunker_pc = "returned"
    /\ Len(chunks) >= 2
    /\ \E k \in 1..Len(chunks) :
           chunks[k].line_count > max_lines /\ FallbackHalving(chunks[k])
    /\ \E k \in 1..Len(chunks) :
           chunks[k].line_count <= max_lines /\ ~FallbackHalving(chunks[k])

FirstSliceHeaderFirst(partials) ==
    \A k \in 1..Len(partials) :
        /\ partials[k].lines # <<>>
        /\ (k = 1 \/ partials[k - 1].new_path # partials[k].new_path)
               => IsHeaderFirst(partials[k])

C10_ExactSizes ==
    (~prefer_file_boundaries /\ max_lines > 0 /\ chunker_pc = "returned") =>
        /\ \A k \in 1..(Len(chunks) - 1) : chunks[k].line_count = max_lines
        /\ chunks # <<>> =>
               chunks[Len(chunks)].line_count \in 1..max_lines
        /\ Len(chunks)
               = (TotalLines(filtered_changes) + max_lines - 1) \div max_lines

C10_Witness ==
    /\ ~prefer_file_boundaries /\ max_lines > 1
    /\ chunker_pc = "returned"
    /\ Len(chunks) >= 2
    /\ chunks[Len(chunks)].line_count < max_lines
    /\ Len(chunks[1].file_changes) >= 2

\* C11: filter_changes, given its own output with the same options, returns
\* a sequence equal to that output, record by record.
C11_FilterIdempotent ==
    filter_calls >= 2 =>
        /\ Len(filtered_changes) = Len(filter_arg)
        /\ \A k \in 1..Len(filter_arg) : filtered_changes[k] = filter_arg[k]

C11_Witness ==
    /\ filter_calls >= 2
    /\ skip_trivial
    /\ filter_arg # <<>>
    /\ Len(file_changes) > Len(filter_arg)
    /\ \E k \in 1..Len(filter_arg) :
           \E j \in 1..Len(file_changes) :
               /\ file_changes[j].new_path = filter_arg[k].new_path
               /\ Len(file_changes[j].lines) > Len(filter_arg[k].lines)

\* the files of changes that have no record of their path in kept
Dropped(changes, kept) ==
    {k \in 1..Len(changes) :
        \A j \in 1..Len(kept) : kept[j].new_path # changes[k].new_path}

\* C15: after each filter_changes call trivial_count is the number of files
\* that call dropped, each counted once, whatever earlier calls counted, so
\* len(output) + trivial_count = len(input).
C15_TrivialCount ==
    filter_calls >= 1 =>
        /\ trivial_count = Cardinality(Dropped(filter_arg, filtered_changes))
        /\ Len(filtered_changes) + trivial_count = Len(filter_arg)

C15_Witness ==
    /\ filter_calls >= 2
    /\ trivial_count = 0
    /\ filter_arg # <<>>
    /\ Cardinality(Dropped(file_changes, filter_arg)) >= 1

\* a line that starts with + or -, +++ and --- lines apart
IsChangeLine(text) == IsAddition(text) \/ IsDeletion(text)

\* the trivial-line rule: what follows the marker is empty, or whitespace
\* only, or content followed by trailing whitespace
TrivialByRule(text) ==
    /\ IsChangeLine(text)
    /\ \/ Tail(text) = <<>>
       \/ text[Len(text)] \in Whitespace

\* C13: a + or - line that is no +++ or --- line is classified trivial if
\* and only if what follows its marker is empty, or whitespace only, or
\* content followed by trailing whitespace.
C13_TrivialLineRule ==
    (is_trivial # <<>> /\ IsChangeLine(line)) =>
        is_trivial[1] = TrivialByRule(line)

\* the path of change matches a generated pattern and skip_generated is on
IsGenerated(change) ==
    /\ skip_generated
    /\ \E k \in 1..Len(generated_patterns) :
           \/ PatternMatch(generated_patterns[k], change.new_path)
           \/ PatternMatch(generated_patterns[k], change.old_path)

IsNotTrivialByRule(text) == ~TrivialByRule(text)

\* lines without the lines the rule makes trivial
Trimmed(lines) == SelectSeq(lines, IsNotTrivialByRule)

HasContentLine(lines) == \E k \in 1..Len(lines) : IsChangeLine(lines[k])

IsKept(change) ==
    /\ ~IsGenerated(change)
    /\ skip_trivial => HasContentLine(Trimmed(change.lines))

\* the kept files of changes, in order, trimmed when skip_trivial is on
RECURSIVE KeptOf(_)
KeptOf(changes) ==
    IF changes = <<>> THEN <<>>
    ELSE IF ~IsKept(Head(changes)) THEN KeptOf(Tail(changes))
    ELSE IF skip_trivial
    THEN <<[Head(changes) EXCEPT !.lines = Trimmed(@)]>>
             \o KeptOf(Tail(changes))
    ELSE <<Head(changes)>> \o KeptOf(Tail(changes))

\* C12: filter_changes drops a file whose path matches a generated pattern
\* when skip_generated is on; otherwise, when skip_trivial is on, it keeps
\* the file if and only if its lines without the trivial ones still hold a
\* + or - content line, and the kept file carries the trimmed lines, its
\* other fields unchanged; otherwise it keeps the file unchanged. The kept
\* files are in input order.
C12_FileDecision ==
    filter_calls >= 1 => filtered_changes = KeptOf(filter_arg)

\* a is b with some of its elements left out
RECURSIVE IsSubsequence(_, _)
IsSubsequence(a, b) ==
    IF a = <<>> THEN TRUE
    ELSE IF b = <<>> THEN FALSE
    ELSE IF Head(a) = Head(b) THEN IsSubsequence(Tail(a), Tail(b))
    ELSE IsSubsequence(a, Tail(b))

IsNotChangeLine(text) == ~IsChangeLine(text)

\* the kept record is the file original with + and - content lines left out
\* and nothing else
RetainsOthers(kept, original) ==
    /\ IsSubsequence(kept.lines, original.lines)
    /\ SelectSeq(kept.lines, IsNotChangeLine)
           = SelectSeq(original.lines, IsNotChangeLine)

\* C14: for every file filter_changes keeps with skip_trivial on, the
\* trimmed lines are a subsequence of the original lines, and every original
\* line that is no + or - content line is among them.
C14_RetainsOthers ==
    (filter_calls >= 1 /\ skip_trivial) =>
        \A k \in 1..Len(filtered_changes) :
            \E j \in 1..Len(filter_arg) :
                /\ filter_arg[j].new_path = filtered_changes[k].new_path
                /\ RetainsOthers(filtered_changes[k], filter_arg[j])

C14_Witness ==
    /\ filter_calls = 1 /\ skip_trivial
    /\ \E k \in 1..Len(filtered_changes) :
           \E j \in 1..Len(filter_arg) :
               /\ filter_arg[j].new_path = filtered_changes[k].new_path
               /\ Len(filtered_changes[k].lines) < Len(filter_arg[j].lines)
               /\ Len(SelectSeq(filter_arg[j].lines, IsNotChangeLine)) >= 3

\* ---------------------------------------------------------------------
\* C16

\* text starts with the character c, and not with three of them
StartsWithButNot(text, c) ==
    /\ Len(text) >= 1 /\ text[1] = c
    /\ ~(Len(text) >= 3 /\ text[2] = c /\ text[3] = c)

MarkedLines(lines, c) ==
    Cardinality({j \in 1..Len(lines) : StartsWithButNot(lines[j], c)})

RECURSIVE MarkedIn(_, _)
MarkedIn(changes, c) ==
    IF changes = <<>> THEN 0
    ELSE MarkedLines(Head(changes).lines, c) + MarkedIn(Tail(changes), c)

\* C16: after every call of parse_stream, the first or a later one on the
\* same parser, total_lines is the number of lines of the input of that
\* call, files_changed the number of records returned, binary_files the
\* number of binary records, additions and deletions the numbers of lines
\* of the records that start with + but not +++, and with - but not ---;
\* an empty input gives no record and counts that are all zero.
C16_ParseStatistics ==
    parser_pc = "returned" =>
        /\ stats.total_lines = Len(input)
        /\ stats.files_changed = Len(file_changes)
        /\ stats.binary_files =
               Cardinality({k \in 1..Len(file_changes) : file_changes[k].is_binary})
        /\ stats.additions = MarkedIn(file_changes, "+")
        /\ stats.deletions = MarkedIn(file_changes, "-")
        /\ input = <<>> =>
               file_changes = <<>> /\ stats = DiffStats(0, 0, 0, 0, 0, 0)

\* a second call on the same parser has returned, and has counted the one
\* file and the one addition of its own three lines
C16_Witness ==
    /\ parser_pc = "returned" /\ parse_calls = 2
    /\ stats.files_changed = 1 /\ stats.additions = 1
    /\ stats.total_lines = 3

\* ---------------------------------------------------------------------
\* C17

\* the first hunk header of lines from index k on, line terminator removed,
\* in the section k lies in: the section ends at a binary marker, at the
\* next diff --git line and at the end of lines; <<>> when it holds none
RECURSIVE FirstHunkHeader(_, _)
FirstHunkHeader(lines, k) ==
    IF k > Len(lines) THEN <<>>
    ELSE IF startswith(lines[k], DIFF_GIT) \/ BINARY_PATTERN(rstrip(lines[k]))
    THEN <<>>
    ELSE IF HUNK_HEADER_PATTERN(rstrip(lines[k])).matched THEN rstrip(lines[k])
    ELSE FirstHunkHeader(lines, k + 1)

\* the number written at position p of text
NumberAt(text, p) == int(SubSeq(text, p, DigitsEnd(text, p) - 1))

\* the count written after the start at position p of text, 1 when none is
CountAfter(text, p) ==
    IF text[DigitsEnd(text, p)] = ","
    THEN NumberAt(text, DigitsEnd(text, p) + 1)
    ELSE 1

\* the position of the + of the hunk header text
PlusOf(text) == CHOOSE p \in 1..Len(text) : text[p] = "+"

\* old_start, old_count, new_start, new_count as the hunk header text gives
\* them, <<>> standing for no hunk header
HunkRange(text) ==
    IF text = <<>> THEN <<0, 0, 0, 0>>
    ELSE <<NumberAt(text, Len(HUNK_OPEN) + 1), CountAfter(text, Len(HUNK_OPEN) + 1),
           NumberAt(text, PlusOf(text) + 1), CountAfter(text, PlusOf(text) + 1)>>

RangeOfChange(change) ==
    <<change.old_start, change.old_count, change.new_start, change.new_count>>

\* C17: old_start, old_count, new_start and new_count of every parsed
\* FileChange are the numbers of the first hunk header of the file's
\* section, a count the header leaves out taken as 1; later hunk headers of
\* the file do not change them; a file with no hunk header has all four 0.
C17_FirstHunkOnly ==
    \A k \in 1..Len(file_changes) :
        RangeOfChange(file_changes[k])
            = HunkRange(FirstHunkHeader(input, starts[k] + 2))

\* a file whose first hunk header leaves both counts out and whose lines
\* hold a later hunk header with other numbers
C17_Witness ==
    \E k \in 1..Len(file_changes) :
        /\ RangeOfChange(file_changes[k]) = <<1, 1, 1, 1>>
        /\ \E j \in 1..Len(file_changes[k].lines) :
               file_changes[k].lines[j] = rstrip(LineHunkCounts)

\* ---------------------------------------------------------------------
\* C18

\* the index of the line that ends the header region that starts at index k
\* of lines: the first hunk header, binary marker or diff --git line from k
\* on, Len(lines) + 1 when there is none
RECURSIVE HeaderRegionEnd(_, _)
HeaderRegionEnd(lines, k) ==
    IF k > Len(lines) THEN k
    ELSE IF \/ startswith(lines[k], DIFF_GIT)
            \/ BINARY_PATTERN(rstrip(lines[k]))
            \/ HUNK_HEADER_PATTERN(rstrip(lines[k])).matched
    THEN k
    ELSE HeaderRegionEnd(lines, k + 1)

\* a new file mode line lies in lines from index k to the one before e
HasNewFileMode(lines, k, e) ==
    \E j \in k..(e - 1) : NEW_FILE_MODE_PATTERN(rstrip(lines[j]))

HasDeletedFileMode(lines, k, e) ==
    \E j \in k..(e - 1) : DELETED_FILE_MODE_PATTERN(rstrip(lines[j]))

\* the header region from k to the one before e ends at a binary marker
EndsAtBinary(lines, e) == e <= Len(lines) /\ BINARY_PATTERN(rstrip(lines[e]))

\* the flags of change are those of the header region of lines from k to e,
\* and a binary change ends with the marker and holds no hunk header
MirrorsMarkers(change, lines, k, e) ==
    /\ change.is_new_file = HasNewFileMode(lines, k, e)
    /\ change.is_deleted_file = HasDeletedFileMode(lines, k, e)
    /\ change.is_binary = EndsAtBinary(lines, e)
    /\ change.is_binary =>
           /\ change.lines[Len(change.lines)] = rstrip(lines[e])
           /\ Len(change.lines) = e - k + 2
           /\ \A j \in 1..Len(change.lines) :
                  ~HUNK_HEADER_PATTERN(change.lines[j]).matched

\* C18: for every parsed FileChange, is_new_file (is_deleted_file) holds
\* exactly when a new file mode (deleted file mode) line lies in the
\* file's header region, before the first hunk header or binary marker;
\* is_binary holds exactly when a binary marker lies there, and then the
\* marker is the last line of the record and no hunk line follows it.
C18_FlagsMirrorMarkers ==
    \A k \in 1..Len(file_changes) :
        MirrorsMarkers(file_changes[k], input, starts[k] + 2,
                       HeaderRegionEnd(input, starts[k] + 2))

\* a deleted binary file whose marker is followed by a hunk header in the
\* input
C18_Witness ==
    \E k \in 1..Len(file_changes) :
        /\ file_changes[k].is_binary /\ file_changes[k].is_deleted_file
        /\ starts[k] + Len(file_changes[k].lines) < Len(input)
        /\ input[starts[k] + Len(file_changes[k].lines) + 1] = LineHunk

\* ---------------------------------------------------------------------
\* C19

\* after holds the chunks of before, in their order, none added or removed,
\* each as it was but for its total_chunks
SameChunks(before, after) ==
    /\ Len(after) = Len(before)
    /\ \A j \in 1..Len(before) :
           [after[j] EXCEPT !.total_chunks = before[j].total_chunks] = before[j]

\* value is what get_chunk(n) is to hand back on the chunks before
Looked(before, n, value, after) ==
    IF 1 <= n /\ n <= Len(before)
    THEN /\ Len(value) = 1
         /\ value[1].chunk_number = n
         /\ value[1].total_chunks = Len(before)
         /\ value[1] = after[n]
    ELSE value = <<>>

\* C19: on a chunker that holds k chunks, get_chunk(n) hands back the chunk
\* whose chunk_number is n, its total_chunks set to k, when 1 <= n <= k, and
\* no chunk for every other n; the call adds, removes and reorders no chunk.
C19_GetChunkLookup ==
    [][(calls' = calls + 1 /\ returned'.op = "get_chunk") =>
           /\ SameChunks(chunks, chunks')
           /\ Looked(chunks, returned'.arg, returned'.value, chunks')]_vars

\* get_chunk has found the last of at least two chunks
C19_Witness ==
    /\ returned.op = "get_chunk"
    /\ returned.arg >= 2 /\ returned.arg = Len(chunks)
    /\ returned.value # <<>>

\* ---------------------------------------------------------------------
\* C20

\* a and b are the same record but for their lines
SameButLines(a, b) == [a EXCEPT !.lines = b.lines] = b

\* every line of the record result is a line of the record original
DrawnFrom(result, original) ==
    /\ SameButLines(result, original)
    /\ \A j \in 1..Len(result.lines) :
           \E n \in 1..Len(original.lines) :
               original.lines[n] = result.lines[j]

\* every record of results is drawn from a record of originals
AllDrawnFrom(results, originals) ==
    \A k \in 1..Len(results) :
        \E j \in 1..Len(originals) : DrawnFrom(results[k], originals[j])

\* a step of filter_changes leaves the records it was given as they were
FilterKeepsInput ==
    filter_calls' = filter_calls + 1 =>
        /\ file_changes' = file_changes
        /\ filter_arg' = IF filter_pc = "idle" THEN file_changes
                         ELSE filtered_changes

InChunkChanges(pc) == pc \in {"by_file_boundaries", "by_line_count"}

\* a step of chunk_changes leaves the records it was given as they were
ChunkerKeepsInput ==
    (InChunkChanges(chunker_pc) \/ InChunkChanges(chunker_pc')) =>
        /\ filtered_changes' = filtered_changes
        /\ filter_arg' = filter_arg
        /\ file_changes' = file_changes

\* C20: filter_changes and chunk_changes, in either mode and when they split
\* a large file, leave every FileChange they are given, and its lines, as
\* they were before the call; the records they make, trimmed or split, have
\* the fields of the original and lines that are lines of the original.
C20_InputsNotMutated ==
    [][/\ FilterKeepsInput
       /\ ChunkerKeepsInput
       /\ AllDrawnFrom(filtered_changes', filter_arg')
       /\ AllDrawnFrom(Partials_of(chunks') \o current_chunk_files',
                       filtered_changes')]_vars

\* chunk_changes has returned parts of a file that the filter had trimmed
C20_Witness ==
    /\ chunker_pc = "returned"
    /\ \E k \in 1..Len(filtered_changes) :
           /\ Len(filtered_changes[k].lines) < Len(filter_arg[k].lines)
           /\ filtered_changes[k].new_path = filter_arg[k].new_path
           /\ \E c \in 1..Len(chunks) :
                  /\ chunks[c].file_changes[1].new_path
                         = filtered_changes[k].new_path
                  /\ Len(chunks[c].file_changes[1].lines)
                         < Len(filtered_changes[k].lines)

\* ---------------------------------------------------------------------
\* C21

\* new_path or old_path of change matches one of patterns
MatchesOneOf(patterns, change) ==
    \E k \in 1..Len(patterns) :
        \/ PatternMatch(patterns[k], change.new_path)
        \/ PatternMatch(patterns[k], change.old_path)

\* no record of kept is the file of change
IsDropped(change, kept) ==
    \A k \in 1..Len(kept) : kept[k].new_path # change.new_path

\* C21: a filter with skip_generated on that add_custom_pattern(p) was
\* called on drops every file whose new_path or old_path matches p and
\* still drops every file that matches a built-in pattern; the built-in
\* list and the patterns of every other filter, made before or after, are
\* as they were.
C21_PatternsInstanceLocal ==
    /\ class_patterns = GENERATED_FILE_PATTERNS
    /\ \A o \in 1..Len(others) : others[o] = GENERATED_FILE_PATTERNS
    /\ (filter_calls >= 1 /\ skip_generated) =>
           \A k \in 1..Len(filter_arg) :
               MatchesOneOf(added \o GENERATED_FILE_PATTERNS, filter_arg[k])
                   => IsDropped(filter_arg[k], filtered_changes)

\* the filter, a pattern added, has dropped a file that only the added
\* pattern matches and a file that only a built-in pattern matches, and
\* another filter has been made
C21_Witness ==
    /\ filter_calls >= 1 /\ skip_generated /\ added # <<>> /\ others # <<>>
    /\ \E k \in 1..Len(filter_arg) :
           /\ MatchesOneOf(added, filter_arg[k])
           /\ ~MatchesOneOf(GENERATED_FILE_PATTERNS, filter_arg[k])
    /\ \E k \in 1..Len(filter_arg) :
           /\ MatchesOneOf(GENERATED_FILE_PATTERNS, filter_arg[k])
           /\ ~MatchesOneOf(added, filter_arg[k])

\* ---------------------------------------------------------------------
\* C22

\* the header region that starts at index k of lines ends at a diff --git
\* line, at index e
EndsAtNextFile(lines, e) == e <= Len(lines) /\ startswith(lines[e], DIFF_GIT)

\* the record change, parsed from index start_idx counted from 0, holds the
\* lines from its diff --git line to the one before index e and no other
ClosedBefore(change, lines, start_idx, e) ==
    change.lines = [j \in 1..(e - 1 - start_idx) |-> rstrip(lines[start_idx + j])]

\* C22: when the parser meets another diff --git line in the header of a
\* file, before any hunk header or binary marker, it closes the file without
\* that line and takes that same line as the start of the next file: the
\* line is in the lines of the next FileChange only, and the transition
\* skips no line and consumes none twice.
C22_HeaderTransition ==
    \A k \in 1..Len(file_changes) :
        EndsAtNextFile(input, HeaderRegionEnd(input, starts[k] + 2)) =>
            /\ ClosedBefore(file_changes[k], input, starts[k],
                            HeaderRegionEnd(input, starts[k] + 2))
            /\ k < Len(starts) =>
                   starts[k + 1] = HeaderRegionEnd(input, starts[k] + 2) - 1

\* ---------------------------------------------------------------------
\* C23

\* the indices, counted from 0 and in order, of the lines of lines from index
\* k on that match the file header pattern
RECURSIVE HeaderIndices(_, _)
HeaderIndices(lines, k) ==
    IF k > Len(lines) THEN <<>>
    ELSE IF FILE_HEADER_PATTERN(rstrip(lines[k])).matched
    THEN <<k - 1>> \o HeaderIndices(lines, k + 1)
    ELSE HeaderIndices(lines, k + 1)

\* text is a hunk header or a hunk content line
IsHunkLine(text) == HUNK_HEADER_PATTERN(text).matched \/ IsHunkContent(text)

\* change is the record of the file header at index at of lines, counted
\* from 0: it has the paths of that line and, in their order, the hunk
\* headers and hunk content lines of the section of that line
IsRecordOf(change, lines, at) ==
    /\ <<change.old_path, change.new_path>>
           = FILE_HEADER_PATTERN(rstrip(lines[at + 1])).groups
    /\ IsSubsequence(SelectSeq(Section(lines, at), IsHunkLine), change.lines)

\* records holds one record for each index of headers, in order
OnePerHeader(records, lines, headers) ==
    /\ Len(records) = Len(headers)
    /\ \A k \in 1..Len(records) : IsRecordOf(records[k], lines, headers[k])

\* C23: parse_stream returns one FileChange for each line of the input that
\* matches the file header pattern, in input order, with the paths of that
\* line; every hunk header and hunk content line between the header of a
\* file and the next diff --git line or the end of the input is in the
\* lines of the FileChange of that file, however many hunks it has.
C23_OneRecordPerHeader ==
    parser_pc = "returned" =>
        OnePerHeader(file_changes, input, HeaderIndices(input, 1))

\* ---------------------------------------------------------------------
\* C24

\* for each record of records, in order, the index of the file of files it
\* is drawn from, the files taken in their order from index p on; 0 for a
\* record that is drawn from none of the files left
RECURSIVE Origins(_, _, _)
Origins(records, files, p) ==
    IF records = <<>> THEN <<>>
    ELSE IF p > Len(files) THEN <<0>> \o Origins(Tail(records), files, p)
    ELSE IF DrawnFrom(Head(records), files[p])
    THEN <<p>> \o Origins(Tail(records), files, p)
    ELSE Origins(records, files, p + 1)

\* the place, among the records of all of cs, of the first record of the
\* chunk after the first k chunks of cs
RECURSIVE FirstPlace(_, _)
FirstPlace(cs, k) ==
    IF k = 0 THEN 1 ELSE Len(cs[k].file_changes) + FirstPlace(cs, k - 1)

\* chunk k of cs, whose records come from the files of origins, holds a
\* file of more than bound lines: it is a sub-chunk of a split file
IsSubChunk(cs, files, origins, k, bound) ==
    Len(files[origins[FirstPlace(cs, k - 1)]].lines) > bound

\* chunk k of cs was closed because the file that starts chunk k + 1 did
\* not fit
ClosedWhenFull(cs, files, origins, k, bound) ==
    cs[k].line_count + Len(files[origins[FirstPlace(cs, k)]].lines) > bound

\* the records of cs are the files in their order, and no chunk but a
\* sub-chunk was closed before a file that fitted
GreedyPacking(cs, files, origins, bound) ==
    /\ \A n \in 1..Len(origins) : origins[n] # 0
    /\ \A k \in 1..(Len(cs) - 1) :
           \/ IsSubChunk(cs, files, origins, k, bound)
           \/ ClosedWhenFull(cs, files, origins, k, bound)

\* C24: in file-boundary mode the files are in the chunks in input order,
\* and for every two chunks k and k + 1 that follow each other, line_count
\* of chunk k plus the lines of the input file that starts chunk k + 1 is
\* more than max_lines, unless chunk k is a sub-chunk of a split file; of
\* the chunks chunk_changes has just returned.
C24_GreedyPacking ==
    (/\ chunker_pc = "returned" /\ returned.op = "chunk_changes"
     /\ prefer_file_boundaries) =>
        GreedyPacking(returned.value, filtered_changes,
            Origins(Partials_of(returned.value), filtered_changes, 1),
            max_lines)

\* ---------------------------------------------------------------------
\* C25

\* the origins of the records of chunk j of cs
ChunkOrigins(cs, origins, j) ==
    {origins[n] : n \in FirstPlace(cs, j - 1)..(FirstPlace(cs, j) - 1)}

\* the chunks of cs that hold a record of file k
ChunksOf(cs, origins, k) ==
    {j \in 1..Len(cs) : k \in ChunkOrigins(cs, origins, j)}

\* a / b rounded up, b > 0
CeilDiv(a, b) == (a + b - 1) \div b

\* the chunks js of cs are n chunks that follow each other from chunk first
\* on, each of one FileChange: that of file, whose lines are headers and
\* then the next size lines of content; no chunk before them holds a later
\* file
SplitShape(cs, origins, js, first, n, file, k, headers, content, size) ==
    /\ Cardinality(js) = n
    /\ js = first..(first + n - 1)
    /\ \A j \in js :
           /\ Len(cs[j].file_changes) = 1
           /\ cs[j].file_changes[1] =
                  WithLines(file,
                      headers \o SubSeq(content, (j - first) * size + 1,
                                     Min2((j - first + 1) * size,
                                         Len(content))))
    /\ \A j \in 1..(first - 1) : \A o \in ChunkOrigins(cs, origins, j) : o < k

SplitShapeOf(cs, origins, js, file, k, headers, content, bound) ==
    /\ js # {}
    /\ SplitShape(cs, origins, js, CHOOSE j \in js : \A m \in js : j <= m,
           CeilDiv(Len(content), bound - Len(headers)), file, k, headers,
           content, bound - Len(headers))

\* file k of files has more than bound lines, fewer than bound of them
\* header lines
IsSplitWithRoom(files, k, bound) ==
    /\ Len(files[k].lines) > bound
    /\ bound - Len(SelectSeq(files[k].lines, IsHeaderLine)) > 0

SplitShapes(cs, files, origins, bound) ==
    \A k \in 1..Len(files) :
        IsSplitWithRoom(files, k, bound) =>
            SplitShapeOf(cs, origins, ChunksOf(cs, origins, k), files[k], k,
                SelectSeq(files[k].lines, IsHeaderLine),
                SelectSeq(files[k].lines, IsContentLine), bound)

\* C25: in file-boundary mode a file of h header lines and c content lines,
\* h + c more than max_lines and max_lines - h more than 0, is in exactly
\* ceil(c / (max_lines - h)) chunks, each of that one FileChange alone, its
\* lines all h header lines and then the next max_lines - h content lines
\* at most, and the files before it are in chunks before the first of them.
C25_SplitShape ==
    (chunker_pc = "returned" /\ prefer_file_boundaries) =>
        SplitShapes(chunks, filtered_changes,
            Origins(Partials_of(chunks), filtered_changes, 1), max_lines)

\* a smaller file was pending when a file with room for content was split
\* in two sub-chunks or more
C25_Witness ==
    /\ chunker_pc = "returned" /\ prefer_file_boundaries
    /\ Len(filtered_changes) >= 2
    /\ Len(filtered_changes[1].lines) <= max_lines
    /\ IsSplitWithRoom(filtered_changes, 2, max_lines)
    /\ Len(chunks) >= 3
    /\ chunks[1].file_changes = <<filtered_changes[1]>>

\* ---------------------------------------------------------------------
\* C26

\* no file of files from the k-th on has a line after the first off lines
\* of the k-th
NothingLeft(files, k, off) ==
    \A n \in k..Len(files) :
        Len(files[n].lines) = IF n = k THEN off ELSE 0

\* the records ps are, in order, slices that follow each other of the lines
\* of the files from the k-th on, the first off lines of the k-th taken
\* already: each is not empty, lies in one file and has the fields of that
\* file, and no line is left over
RECURSIVE SlicesInOrder(_, _, _, _)
SlicesInOrder(ps, files, k, off) ==
    IF ps = <<>> THEN NothingLeft(files, k, off)
    ELSE IF k > Len(files) THEN FALSE
    ELSE IF off = Len(files[k].lines) THEN SlicesInOrder(ps, files, k + 1, 0)
    ELSE /\ Head(ps).lines # <<>>
         /\ off + Len(Head(ps).lines) <= Len(files[k].lines)
         /\ Head(ps) = WithLines(files[k],
                           SubSeq(files[k].lines, off + 1,
                               off + Len(Head(ps).lines)))
         /\ SlicesInOrder(Tail(ps), files, k, off + Len(Head(ps).lines))

LosesAndMixesNothing(ps, files) ==
    /\ AllLines(ps) = AllLines(files)
    /\ SlicesInOrder(ps, files, 1, 0)

\* C26: with prefer_file_boundaries false and max_lines positive, the lines
\* of the partial FileChange records of all chunks, in chunk order and
\* record order, are the lines of the input files in input order; every
\* partial record is not empty, holds a slice of the lines of one input
\* file and has that file's paths, numbers and flags.
C26_StrictLosesNothing ==
    (chunker_pc = "returned" /\ ~prefer_file_boundaries /\ max_lines > 0) =>
        LosesAndMixesNothing(Partials_of(chunks), filtered_changes)

\* a file was cut between two chunks and a chunk holds records of two files
C26_Witness ==
    /\ chunker_pc = "returned" /\ ~prefer_file_boundaries /\ max_lines > 0
    /\ Len(chunks) >= 2
    /\ \E k \in 1..(Len(chunks) - 1) :
           /\ Len(chunks[k].file_changes) >= 2
           /\ chunks[k].file_changes[1].new_path
                  # chunks[k].file_changes[2].new_path
           /\ chunks[k].file_changes[2].new_path
                  = chunks[k + 1].file_changes[1].new_path

\* ---------------------------------------------------------------------
\* C27

\* get_all_chunks, get_chunk, get_chunk_count and get_chunk_stats answer on
\* the chunks held as they do on the chunks latest
ReadsReflect(held, latest) ==
    /\ get_all_chunks(held) = get_all_chunks(latest)
    /\ \A n \in 0..(Len(held) + 1) :
           get_chunk(held, n).chunk = get_chunk(latest, n).chunk
    /\ get_chunk_count(held) = get_chunk_count(latest)
    /\ get_chunk_stats(held) = get_chunk_stats(latest)

\* C27: when chunk_changes has returned, the chunker answers
\* get_all_chunks, get_chunk, get_chunk_count and get_chunk_stats from the
\* chunks that call returned, whatever calls came before; after a call on an
\* empty list there are no chunks.
C27_LatestChunkingOnly ==
    (chunker_pc = "returned" /\ returned.op = "chunk_changes") =>
        ReadsReflect(chunks, returned.value)

\* ---------------------------------------------------------------------
\* C28

\* some chunk of cs holds a record whose new_path is path
HoldsPath(cs, path) ==
    \E j \in 1..Len(cs) :
        \E n \in 1..Len(cs[j].file_changes) :
            cs[j].file_changes[n].new_path = path

NoFileVanishes(cs, files) ==
    /\ Len(cs) >= 1
    /\ \A j \in 1..Len(cs) : cs[j].file_changes # <<>>
    /\ \A k \in 1..Len(files) : HoldsPath(cs, files[k].new_path)

\* C28: in file-boundary mode, for positive max_lines and an input that is
\* not empty, chunk_changes returns at least one chunk, every chunk holds at
\* least one FileChange, and the new_path of every input file is in some
\* chunk.
C28_NoFileVanishes ==
    (/\ chunker_pc = "returned" /\ returned.op = "chunk_changes"
     /\ prefer_file_boundaries /\ max_lines > 0
     /\ filtered_changes # <<>>) =>
        NoFileVanishes(returned.value, filtered_changes)

====
